---- MODULE Spec2Model ----
(***************************************************************************)
(* Model of the configuration-subscription stream and of the shutdown of   *)
(* the gRPC API (pkg/api/grpc/grpc.go): SubscribeConfiguration, the driver *)
(* update callback configurationEventHandler.updateEventHandler, the       *)
(* deprecated UnsubscribeConfiguration and Close; and of its unary calls:  *)
(* InvokeService, PublishEvent, BulkPublishEventAlpha1 and the state       *)
(* operations.                                                             *)
(*                                                                         *)
(* One SubscribeConfiguration call is one stream h.  The configuration     *)
(* driver, the consumer transport and the component store's subscription   *)
(* table are the environment of this file.                                 *)
(***************************************************************************)
EXTENDS Integers, Sequences, FiniteSets, TLC

\* Bounds of the model.
NumStreams == 1        \* concurrent SubscribeConfiguration calls
NumEvents == 2         \* update events a driver emits per subscription
NumClosers == 2        \* concurrent Close calls
NumUnsubscribers == 1  \* concurrent UnsubscribeConfiguration calls
MaxInflight == 1       \* requests registered with the wait group at a time
NumInvokers == 2       \* concurrent InvokeService calls
MaxCalls == 3          \* unary calls in a run
MaxEntries == 3        \* entries of a BulkPublish request
MaxKeys == 2           \* keys or items of a state request
MaxOps == 2            \* operations of a state transaction
MaxRetries == 1        \* retries of a resiliency policy

Streams == 1..NumStreams
Events == 1..NumEvents
Closers == 1..NumClosers
Unsubscribers == 1..NumUnsubscribers
Invokers == 1..NumInvokers

\* The clients that can call UnsubscribeConfiguration: those of the stream
\* model, and those of the deprecated operations.
UnsubscribeCallers == Unsubscribers \cup Invokers

\* The sender of the id frame on a stream (update frames are sent by events).
HandlerSender == 0

VARIABLES
    pc,             \* position of each SubscribeConfiguration handler
    ret,            \* what the handler returned
    subscribeID,    \* id the driver assigned (0: none yet)
    readyClosed,    \* configurationEventHandler.readyClosed
    readyChCloses,  \* number of close(readyCh) executed
    lock,           \* configurationEventHandler.lock: 0 free, else the holding event
    streamCancelled,\* stream.Context() is done (the consumer went away)
    subCancelled,   \* subscribeCtx is cancelled
    trigger,        \* which case of the select let the handler through
    driverSub,      \* the driver's side of the subscription
    unsubCalls,     \* calls of store.Unsubscribe made for the stream's id
    unsubCtxDone,   \* was the context handed to store.Unsubscribe cancelled
    cb,             \* position of the driver callback of each event
    emitted,        \* number of callbacks the driver has invoked
    lockOrder,      \* events in the order they acquired the lock
    sequential,     \* every callback so far was invoked after the earlier ones returned
    sending,        \* senders that are inside serverStream.Send
    streamLog,      \* frames the consumer received, in order
    table,          \* ids in the component store's subscription table
    stopClosed,     \* the stop channel of the stream is closed
    closed,         \* api.closed
    closeChCloses,  \* number of close(closeCh) executed
    panicked,       \* a channel was closed twice
    cpc,            \* position of each Close call
    inflight,       \* counter of api.wg
    upc,            \* position of each UnsubscribeConfiguration call
    uid,            \* id each UnsubscribeConfiguration call asks for
    uok,            \* Ok of the response of each UnsubscribeConfiguration call
    cfg,            \* what the API was built with (NewAPI's options)
    call,           \* the unary call that completed last, with what it did
    ncalls,         \* unary calls completed
    dispatches,     \* calls of the pubsub adapter's Publish and BulkPublish
    egress,         \* pubsub egress metrics recorded
    disk,           \* what the state stores' drivers hold, per store and key
    ipc,            \* position of each InvokeService call
    iret,           \* what each InvokeService call returned
    iclosed,        \* whether the API was closed when each call arrived / invoked
    noticeShown,    \* invokeServiceDeprecationNoticeShown
    httpNoticeShown,\* invokeServiceHTTPDeprecationNoticeShown
    warnings        \* deprecation warnings logged, per notice

vars == <<pc, ret, subscribeID, readyClosed, readyChCloses, lock, streamCancelled,
          subCancelled, trigger, driverSub, unsubCalls, unsubCtxDone, cb, emitted,
          lockOrder, sequential, sending, streamLog, table, stopClosed, closed, closeChCloses,
          panicked, cpc, inflight, upc, uid, uok, cfg, call, ncalls, dispatches,
          egress, disk, ipc, iret, iclosed, noticeShown, httpNoticeShown, warnings>>

handlerVars == <<pc, ret, subscribeID, readyClosed, readyChCloses, subCancelled,
                 trigger, unsubCalls, unsubCtxDone>>
callbackVars == <<cb, emitted, lock, lockOrder, sequential>>
closeVars == <<closed, closeChCloses, panicked, cpc>>
unsubVars == <<upc, uid, uok>>
\* The variables of the unary calls, and those of the subscription streams.
unaryVars == <<cfg, call, ncalls, dispatches, egress, disk>>
invokeVars == <<ipc, iret, iclosed, noticeShown, httpNoticeShown>>
gatewayVars == <<unaryVars, invokeVars>>
streamVars == <<pc, ret, subscribeID, readyClosed, readyChCloses, lock, streamCancelled,
                subCancelled, trigger, driverSub, unsubCalls, unsubCtxDone, cb, emitted,
                lockOrder, sequential, sending, streamLog>>

IdFrame(id) == <<"id", id>>
UpdateFrame(e) == <<"update", e>>

\* No deprecation warning has been logged.
NoWarnings == [invoke |-> 0, http |-> 0, unsubscribe |-> 0]

\* The record of a unary call: the request, the error returned ("nil": none),
\* the requests made to the component, the metrics recorded, the response,
\* what the component answered, and the trace spans started and not ended.
NoCall == [op |-> "none", in |-> <<>>, err |-> "nil", sent |-> <<>>, metrics |-> <<>>,
           resp |-> <<>>, answer |-> <<>>, spans |-> 0]

\* No unary call has been made: the package-level flags are false.
GatewayIdle ==
    /\ call = NoCall
    /\ ncalls = 0
    /\ dispatches = 0
    /\ egress = 0
    /\ disk = <<>>
    /\ ipc = [i \in Invokers |-> "idle"]
    /\ iret = [i \in Invokers |-> "none"]
    /\ iclosed = [i \in Invokers |-> [arrived |-> FALSE, invoked |-> FALSE]]
    /\ noticeShown = FALSE
    /\ httpNoticeShown = FALSE
    /\ warnings = NoWarnings

\* No stream, Close or UnsubscribeConfiguration call has begun.
StreamsIdle ==
    /\ pc = [h \in Streams |-> "idle"]
    /\ ret = [h \in Streams |-> "none"]
    /\ subscribeID = [h \in Streams |-> 0]
    /\ readyClosed = [h \in Streams |-> FALSE]
    /\ readyChCloses = [h \in Streams |-> 0]
    /\ lock = [h \in Streams |-> 0]
    /\ streamCancelled = [h \in Streams |-> FALSE]
    /\ subCancelled = [h \in Streams |-> FALSE]
    /\ trigger = [h \in Streams |-> "none"]
    /\ driverSub = [h \in Streams |-> "none"]
    /\ unsubCalls = [h \in Streams |-> 0]
    /\ unsubCtxDone = [h \in Streams |-> FALSE]
    /\ cb = [h \in Streams |-> [e \in Events |-> "notEmitted"]]
    /\ emitted = [h \in Streams |-> 0]
    /\ lockOrder = [h \in Streams |-> <<>>]
    /\ sequential = [h \in Streams |-> TRUE]
    /\ sending = [h \in Streams |-> {}]
    /\ streamLog = [h \in Streams |-> <<>>]
    /\ table = {}
    /\ stopClosed = [h \in Streams |-> FALSE]
    /\ closed = FALSE
    /\ closeChCloses = 0
    /\ panicked = FALSE
    /\ cpc = [c \in Closers |-> "idle"]
    /\ inflight = 0
    /\ upc = [u \in UnsubscribeCallers |-> "idle"]
    /\ uid = [u \in UnsubscribeCallers |-> 0]
    /\ uok = [u \in UnsubscribeCallers |-> "none"]

Init ==
    /\ StreamsIdle
    /\ cfg = [pubsubAdapter |-> TRUE, directMessaging |-> TRUE, retries |-> 0]
    /\ GatewayIdle

----------------------------------------------------------------------------
(* The component store's subscription table (pkg/runtime/compstore).  The  *)
(* driver assigns stream h the id h, so the stop channel of id i is the    *)
(* one of stream i.                                                        *)

\* AddConfigurationSubscribe(id, stop)
AddConfigurationSubscribe(id) ==
    /\ table' = table \cup {id}
    /\ UNCHANGED stopClosed

\* DeleteConfigurationSubscribe(id): fires the stop channel of the entry, if
\* there is one, and removes the entry.
DeleteConfigurationSubscribe(id) ==
    /\ table' = table \ {id}
    /\ stopClosed' = [h \in Streams |-> stopClosed[h] \/ (h = id /\ id \in table)]

\* DeleteAllConfigurationSubscribe(): the same for every entry.
DeleteAllConfigurationSubscribe ==
    /\ table' = {}
    /\ stopClosed' = [h \in Streams |-> stopClosed[h] \/ h \in table]

\* GetConfigurationSubscribe(id)
GetConfigurationSubscribe(id) == id \in table

----------------------------------------------------------------------------
(* The consumer stream.  Send is not atomic: a sender enters Send and      *)
(* later leaves it, with the frame delivered or with an error.  A Send can *)
(* only succeed while the handler runs and the consumer is there.          *)

StreamOpen(h) == pc[h] # "done" /\ ~streamCancelled[h]

SendResults(h) == IF StreamOpen(h) THEN {"ok", "err"} ELSE {"err"}

EnterSend(h, who) == sending' = [sending EXCEPT ![h] = @ \cup {who}]

LeaveSend(h, who, frame, res) ==
    /\ sending' = [sending EXCEPT ![h] = @ \ {who}]
    /\ streamLog' = [streamLog EXCEPT ![h] = IF res = "ok" THEN Append(@, frame) ELSE @]

----------------------------------------------------------------------------
(* configurationEventHandler                                               *)

\* (variant: readyCh is closed without a look at readyClosed)
readyUnguarded(h) ==
    /\ readyChCloses' = [readyChCloses EXCEPT ![h] = @ + 1]
    /\ readyClosed' = [readyClosed EXCEPT ![h] = TRUE]

\* ready(): closes readyCh unless readyClosed says it is closed already.
ready(h) ==
    /\ readyChCloses' = [readyChCloses EXCEPT ![h] = IF readyClosed[h] THEN @ ELSE @ + 1]
    /\ readyClosed' = [readyClosed EXCEPT ![h] = TRUE]

\* (variant: the callback does not wait for the gate)
ReadyChClosedNoWait(h) == TRUE

\* <-h.readyCh can be passed once the channel is closed.
ReadyChClosed(h) == readyChCloses[h] > 0

----------------------------------------------------------------------------
(* SubscribeConfiguration                                                  *)

\* getConfigurationStore(name): the outcome for a request whose store name
\* is looked up with the given result.
getConfigurationStore(lookup) ==
    CASE lookup = "noStores" -> "FailedPrecondition"
      [] lookup = "notFound" -> "InvalidArgument"
      [] OTHER -> "ok"

\* The context handed to unsubscribeConfiguration is context.Background().
UnsubscribeCtxDone(h) == FALSE

\* subscribeCtx is a child of stream.Context().
SubscribeCtxDone(h) == subCancelled[h] \/ streamCancelled[h]

\* The handler starts: the store lookup, then the handler record is built.
Start(h) ==
    /\ pc[h] = "idle"
    /\ \E lookup \in {"found", "noStores", "notFound"} :
          LET r == getConfigurationStore(lookup) IN
          /\ pc' = [pc EXCEPT ![h] = IF r = "ok" THEN "subscribe" ELSE "done"]
          /\ ret' = [ret EXCEPT ![h] = IF r = "ok" THEN @ ELSE r]
    /\ UNCHANGED <<subscribeID, readyClosed, readyChCloses, subCancelled, trigger,
                   unsubCalls, unsubCtxDone, driverSub, streamCancelled, sending,
                   streamLog, table, stopClosed, inflight>>
    /\ UNCHANGED <<callbackVars, closeVars, unsubVars>>
    /\ UNCHANGED <<gatewayVars, warnings>>

\* subscribeConfiguration: store.Subscribe is called.  The driver either
\* registers the subscription (from now on it may invoke the callback) or
\* fails, and the handler returns the error.
SubscribeCall(h) ==
    /\ pc[h] = "subscribe"
    /\ \E res \in {"ok", "err"} :
          /\ driverSub' = [driverSub EXCEPT ![h] = IF res = "ok" THEN "active" ELSE @]
          /\ pc' = [pc EXCEPT ![h] = IF res = "ok" THEN "subscribing" ELSE "deferred"]
          /\ ret' = [ret EXCEPT ![h] = IF res = "ok" THEN @ ELSE "InvalidArgument"]
    /\ UNCHANGED <<subscribeID, readyClosed, readyChCloses, subCancelled, trigger,
                   unsubCalls, unsubCtxDone, streamCancelled, sending,
                   streamLog, table, stopClosed, inflight>>
    /\ UNCHANGED <<callbackVars, closeVars, unsubVars>>
    /\ UNCHANGED <<gatewayVars, warnings>>

\* store.Subscribe returns the id the driver assigned.
SubscribeReturn(h) ==
    /\ pc[h] = "subscribing"
    /\ subscribeID' = [subscribeID EXCEPT ![h] = h]
    /\ pc' = [pc EXCEPT ![h] = "sendId"]
    /\ UNCHANGED <<ret, readyClosed, readyChCloses, subCancelled, trigger,
                   unsubCalls, unsubCtxDone, driverSub, streamCancelled, sending,
                   streamLog, table, stopClosed, inflight>>
    /\ UNCHANGED <<callbackVars, closeVars, unsubVars>>
    /\ UNCHANGED <<gatewayVars, warnings>>

\* handler.serverStream.Send of the frame that carries the id: entered ...
SendIdBegin(h) ==
    /\ pc[h] = "sendId"
    /\ EnterSend(h, HandlerSender)
    /\ pc' = [pc EXCEPT ![h] = "sendingId"]
    /\ UNCHANGED <<ret, subscribeID, readyClosed, readyChCloses, subCancelled, trigger,
                   unsubCalls, unsubCtxDone, driverSub, streamCancelled,
                   streamLog, table, stopClosed, inflight>>
    /\ UNCHANGED <<callbackVars, closeVars, unsubVars>>
    /\ UNCHANGED <<gatewayVars, warnings>>

\* ... and left; on an error the handler returns it.
SendIdEnd(h) ==
    /\ pc[h] = "sendingId"
    /\ \E res \in SendResults(h) :
          /\ LeaveSend(h, HandlerSender, IdFrame(subscribeID[h]), res)
          /\ pc' = [pc EXCEPT ![h] = IF res = "ok" THEN "addSub" ELSE "deferred"]
          /\ ret' = [ret EXCEPT ![h] = IF res = "ok" THEN @ ELSE "SendError"]
    /\ UNCHANGED <<subscribeID, readyClosed, readyChCloses, subCancelled, trigger,
                   unsubCalls, unsubCtxDone, driverSub, streamCancelled,
                   table, stopClosed, inflight>>
    /\ UNCHANGED <<callbackVars, closeVars, unsubVars>>
    /\ UNCHANGED <<gatewayVars, warnings>>

\* stop := make(chan struct{}); CompStore().AddConfigurationSubscribe(id, stop)
AddSubscribe(h) ==
    /\ pc[h] = "addSub"
    /\ AddConfigurationSubscribe(subscribeID[h])
    /\ pc' = [pc EXCEPT ![h] = "ready"]
    /\ UNCHANGED <<ret, subscribeID, readyClosed, readyChCloses, subCancelled, trigger,
                   unsubCalls, unsubCtxDone, driverSub, streamCancelled, sending,
                   streamLog, inflight>>
    /\ UNCHANGED <<callbackVars, closeVars, unsubVars>>
    /\ UNCHANGED <<gatewayVars, warnings>>

\* handler.ready() after the first message
Ready(h) ==
    /\ pc[h] = "ready"
    /\ ready(h)
    /\ pc' = [pc EXCEPT ![h] = "select"]
    /\ UNCHANGED <<ret, subscribeID, subCancelled, trigger,
                   unsubCalls, unsubCtxDone, driverSub, streamCancelled, sending,
                   streamLog, table, stopClosed, inflight>>
    /\ UNCHANGED <<callbackVars, closeVars, unsubVars>>
    /\ UNCHANGED <<gatewayVars, warnings>>

\* (variant: the select has a third case for a driver that terminated)
SelectCasesWithDriver(h) ==
    (IF streamCancelled[h] THEN {"consumer"} ELSE {}) \cup
    (IF stopClosed[h] THEN {"stop"} ELSE {}) \cup
    (IF driverSub[h] = "terminated" THEN {"driver"} ELSE {})

\* The cases of the select that are ready.
SelectCases(h) ==
    (IF streamCancelled[h] THEN {"consumer"} ELSE {}) \cup
    (IF stopClosed[h] THEN {"stop"} ELSE {})

\* select { <-stream.Context().Done(); <-stop }, then subscribeCancel()
Select(h) ==
    /\ pc[h] = "select"
    /\ \E t \in SelectCases(h) : trigger' = [trigger EXCEPT ![h] = t]
    /\ subCancelled' = [subCancelled EXCEPT ![h] = TRUE]
    /\ pc' = [pc EXCEPT ![h] = "unsubscribe"]
    /\ UNCHANGED <<ret, subscribeID, readyClosed, readyChCloses,
                   unsubCalls, unsubCtxDone, driverSub, streamCancelled, sending,
                   streamLog, table, stopClosed, inflight>>
    /\ UNCHANGED <<callbackVars, closeVars, unsubVars>>
    /\ UNCHANGED <<gatewayVars, warnings>>

\* unsubscribeConfiguration: store.Unsubscribe is called for the id; on an
\* error the handler returns it at once.
Unsubscribe(h) ==
    /\ pc[h] = "unsubscribe"
    /\ unsubCalls' = [unsubCalls EXCEPT ![h] = @ + 1]
    /\ unsubCtxDone' = [unsubCtxDone EXCEPT ![h] = UnsubscribeCtxDone(h)]
    /\ \E res \in {"ok", "err"} :
          /\ driverSub' = [driverSub EXCEPT ![h] = IF res = "ok" THEN "unsubscribed" ELSE @]
          /\ pc' = [pc EXCEPT ![h] = IF res = "ok" THEN "delete" ELSE "deferred"]
          /\ ret' = [ret EXCEPT ![h] = IF res = "ok" THEN @ ELSE "UnsubscribeError"]
    /\ UNCHANGED <<subscribeID, readyClosed, readyChCloses, subCancelled, trigger,
                   streamCancelled, sending, streamLog, table, stopClosed, inflight>>
    /\ UNCHANGED <<callbackVars, closeVars, unsubVars>>
    /\ UNCHANGED <<gatewayVars, warnings>>

\* CompStore().DeleteConfigurationSubscribe(subscribeID); return nil
DeleteSubscribe(h) ==
    /\ pc[h] = "delete"
    /\ DeleteConfigurationSubscribe(subscribeID[h])
    /\ pc' = [pc EXCEPT ![h] = "deferred"]
    /\ ret' = [ret EXCEPT ![h] = "nil"]
    /\ UNCHANGED <<subscribeID, readyClosed, readyChCloses, subCancelled, trigger,
                   unsubCalls, unsubCtxDone, driverSub, streamCancelled, sending,
                   streamLog, inflight>>
    /\ UNCHANGED <<callbackVars, closeVars, unsubVars>>
    /\ UNCHANGED <<gatewayVars, warnings>>

\* The deferred calls on every return after the handler record was built:
\* subscribeCancel() and handler.ready().
Deferred(h) ==
    /\ pc[h] = "deferred"
    /\ ready(h)
    /\ subCancelled' = [subCancelled EXCEPT ![h] = TRUE]
    /\ pc' = [pc EXCEPT ![h] = "done"]
    /\ UNCHANGED <<ret, subscribeID, trigger,
                   unsubCalls, unsubCtxDone, driverSub, streamCancelled, sending,
                   streamLog, table, stopClosed, inflight>>
    /\ UNCHANGED <<callbackVars, closeVars, unsubVars>>
    /\ UNCHANGED <<gatewayVars, warnings>>

\* The consumer cancels the stream (disconnects) while the call runs.
ConsumerCancel(h) ==
    /\ pc[h] \notin {"idle", "done"}
    /\ ~streamCancelled[h]
    /\ streamCancelled' = [streamCancelled EXCEPT ![h] = TRUE]
    /\ UNCHANGED <<driverSub, sending, streamLog, table, stopClosed, inflight>>
    /\ UNCHANGED <<handlerVars, callbackVars, closeVars, unsubVars>>
    /\ UNCHANGED <<gatewayVars, warnings>>

----------------------------------------------------------------------------
(* The configuration driver and updateEventHandler.  The driver invokes   *)
(* the callback for event 1, then for event 2, ...; it need not wait for  *)
(* one callback to return before it invokes the next from another thread. *)

\* (variant: the callback sends without taking the lock)
LockFreeAlways(h) == TRUE

\* h.lock.Lock() can be passed when nobody holds the lock.
LockFree(h) == lock[h] = 0

\* The driver invokes updateEventHandler for its next event.
Emit(h, e) ==
    /\ driverSub[h] = "active"
    /\ e = emitted[h] + 1
    /\ emitted' = [emitted EXCEPT ![h] = e]
    /\ cb' = [cb EXCEPT ![h][e] = "waitReady"]
    /\ sequential' = [sequential EXCEPT ![h] =
                         @ /\ \A d \in 1..(e - 1) : cb[h][d] \in {"returned", "failed"}]
    /\ UNCHANGED <<lock, lockOrder, driverSub, streamCancelled, sending, streamLog,
                   table, stopClosed, inflight>>
    /\ UNCHANGED <<handlerVars, closeVars, unsubVars>>
    /\ UNCHANGED <<gatewayVars, warnings>>

\* <-h.readyCh
PassGate(h, e) ==
    /\ cb[h][e] = "waitReady"
    /\ ReadyChClosed(h)
    /\ cb' = [cb EXCEPT ![h][e] = "waitLock"]
    /\ UNCHANGED <<emitted, lock, lockOrder, sequential, driverSub, streamCancelled,
                   sending, streamLog, table, stopClosed, inflight>>
    /\ UNCHANGED <<handlerVars, closeVars, unsubVars>>
    /\ UNCHANGED <<gatewayVars, warnings>>

\* h.lock.Lock(); the items are copied; h.serverStream.Send is entered.
LockAndSend(h, e) ==
    /\ cb[h][e] = "waitLock"
    /\ LockFree(h)
    /\ lock' = [lock EXCEPT ![h] = e]
    /\ lockOrder' = [lockOrder EXCEPT ![h] = Append(@, e)]
    /\ EnterSend(h, e)
    /\ cb' = [cb EXCEPT ![h][e] = "sending"]
    /\ UNCHANGED <<emitted, sequential, driverSub, streamCancelled, streamLog, table, stopClosed,
                   inflight>>
    /\ UNCHANGED <<handlerVars, closeVars, unsubVars>>
    /\ UNCHANGED <<gatewayVars, warnings>>

\* Send returns; the callback returns its result and the deferred Unlock runs.
SendDone(h, e) ==
    /\ cb[h][e] = "sending"
    /\ \E res \in SendResults(h) :
          /\ LeaveSend(h, e, UpdateFrame(e), res)
          /\ cb' = [cb EXCEPT ![h][e] = IF res = "ok" THEN "returned" ELSE "failed"]
    /\ lock' = [lock EXCEPT ![h] = IF @ = e THEN 0 ELSE @]
    /\ UNCHANGED <<emitted, lockOrder, sequential, driverSub, streamCancelled, table, stopClosed,
                   inflight>>
    /\ UNCHANGED <<handlerVars, closeVars, unsubVars>>
    /\ UNCHANGED <<gatewayVars, warnings>>

\* The driver's side of the subscription ends by itself (the backing store
\* went away); the driver invokes no further callback.
DriverTerminate(h) ==
    /\ driverSub[h] = "active"
    /\ driverSub' = [driverSub EXCEPT ![h] = "terminated"]
    /\ UNCHANGED <<streamCancelled, sending, streamLog, table, stopClosed, inflight>>
    /\ UNCHANGED <<handlerVars, callbackVars, closeVars, unsubVars>>
    /\ UNCHANGED <<gatewayVars, warnings>>

----------------------------------------------------------------------------
(* UnsubscribeConfiguration                                                *)

\* (variant: the id is not looked up)
UnsubscribeGetNoLookup(u) ==
    /\ upc[u] = "idle"
    /\ \E id \in Streams \cup {0} :
          /\ uid' = [uid EXCEPT ![u] = id]
          /\ upc' = [upc EXCEPT ![u] = "delete"]
          /\ uok' = uok
    /\ UNCHANGED <<driverSub, streamCancelled, sending, streamLog, table, stopClosed,
                   inflight>>
    /\ UNCHANGED <<handlerVars, callbackVars, closeVars>>
    /\ UNCHANGED <<gatewayVars, warnings>>

\* GetConfigurationSubscribe(id): an unknown id is answered Ok=false.  The
\* request carries the id of a stream or 0, an id no driver assigned.
UnsubscribeGet(u) ==
    /\ upc[u] = "idle"
    /\ \E id \in Streams \cup {0} :
          /\ uid' = [uid EXCEPT ![u] = id]
          /\ upc' = [upc EXCEPT ![u] = IF GetConfigurationSubscribe(id) THEN "delete" ELSE "done"]
          /\ uok' = [uok EXCEPT ![u] = IF GetConfigurationSubscribe(id) THEN @ ELSE "false"]
    /\ UNCHANGED <<driverSub, streamCancelled, sending, streamLog, table, stopClosed,
                   inflight>>
    /\ UNCHANGED <<handlerVars, callbackVars, closeVars>>
    /\ UNCHANGED <<gatewayVars, warnings>>

\* (variant: UnsubscribeConfiguration unsubscribes from the driver itself)
UnsubscribeDeleteCallsDriver(u) ==
    /\ upc[u] = "delete"
    /\ DeleteConfigurationSubscribe(uid[u])
    /\ upc' = [upc EXCEPT ![u] = "done"]
    /\ uok' = [uok EXCEPT ![u] = "true"]
    /\ unsubCalls' = [unsubCalls EXCEPT ![uid[u]] = @ + 1]
    /\ driverSub' = [driverSub EXCEPT ![uid[u]] = "unsubscribed"]
    /\ UNCHANGED <<uid, streamCancelled, sending, streamLog, inflight>>
    /\ UNCHANGED <<pc, ret, subscribeID, readyClosed, readyChCloses, subCancelled,
                   trigger, unsubCtxDone>>
    /\ UNCHANGED <<callbackVars, closeVars>>
    /\ warnings' = [warnings EXCEPT !.unsubscribe = @ + 1]
    /\ UNCHANGED gatewayVars

\* The warning is logged; DeleteConfigurationSubscribe(id); Ok=true.
UnsubscribeDelete(u) ==
    /\ upc[u] = "delete"
    /\ DeleteConfigurationSubscribe(uid[u])
    /\ upc' = [upc EXCEPT ![u] = "done"]
    /\ uok' = [uok EXCEPT ![u] = "true"]
    /\ UNCHANGED <<uid, driverSub, streamCancelled, sending, streamLog, inflight>>
    /\ UNCHANGED <<handlerVars, callbackVars, closeVars>>
    /\ warnings' = [warnings EXCEPT !.unsubscribe = @ + 1]
    /\ UNCHANGED gatewayVars

----------------------------------------------------------------------------
(* Close and the requests registered with the wait group api.wg            *)

\* (variant: the flag is set without being tested)
CompareAndSwapAlways == TRUE

\* a.closed.CompareAndSwap(false, true)
CompareAndSwapClosed == ~closed

\* (variant: Close does not wait for the wait group)
WaitDoneNoWait == TRUE

\* a.wg.Wait() returns when the counter is zero.
WaitDone == inflight = 0

\* The CompareAndSwap of Close.
CloseCAS(c) ==
    /\ cpc[c] = "idle"
    /\ cpc' = [cpc EXCEPT ![c] = IF CompareAndSwapClosed THEN "closeCh" ELSE "deleteAll"]
    /\ closed' = TRUE
    /\ UNCHANGED <<closeChCloses, panicked, driverSub, streamCancelled, sending,
                   streamLog, table, stopClosed, inflight>>
    /\ UNCHANGED <<handlerVars, callbackVars, unsubVars>>
    /\ UNCHANGED <<gatewayVars, warnings>>

\* close(a.closeCh); closing a closed channel panics.
CloseChannel(c) ==
    /\ cpc[c] = "closeCh"
    /\ closeChCloses' = closeChCloses + 1
    /\ panicked' = (panicked \/ closeChCloses > 0)
    /\ cpc' = [cpc EXCEPT ![c] = IF closeChCloses > 0 THEN "panic" ELSE "deleteAll"]
    /\ UNCHANGED <<closed, driverSub, streamCancelled, sending, streamLog, table,
                   stopClosed, inflight>>
    /\ UNCHANGED <<handlerVars, callbackVars, unsubVars>>
    /\ UNCHANGED <<gatewayVars, warnings>>

\* a.CompStore().DeleteAllConfigurationSubscribe()
CloseDeleteAll(c) ==
    /\ cpc[c] = "deleteAll"
    /\ DeleteAllConfigurationSubscribe
    /\ cpc' = [cpc EXCEPT ![c] = "wait"]
    /\ UNCHANGED <<closed, closeChCloses, panicked, driverSub, streamCancelled, sending,
                   streamLog, inflight>>
    /\ UNCHANGED <<handlerVars, callbackVars, unsubVars>>
    /\ UNCHANGED <<gatewayVars, warnings>>

\* return nil, through the deferred a.wg.Wait()
CloseWait(c) ==
    /\ cpc[c] = "wait"
    /\ WaitDone
    /\ cpc' = [cpc EXCEPT ![c] = "done"]
    /\ UNCHANGED <<closed, closeChCloses, panicked, driverSub, streamCancelled, sending,
                   streamLog, table, stopClosed, inflight>>
    /\ UNCHANGED <<handlerVars, callbackVars, unsubVars>>
    /\ UNCHANGED <<gatewayVars, warnings>>

\* A request of another handler registers with the wait group ...
RequestBegin ==
    /\ inflight < MaxInflight
    /\ inflight' = inflight + 1
    /\ UNCHANGED <<driverSub, streamCancelled, sending, streamLog, table, stopClosed>>
    /\ UNCHANGED <<handlerVars, callbackVars, closeVars, unsubVars>>
    /\ UNCHANGED <<gatewayVars, warnings>>

\* ... and is done.
RequestEnd ==
    /\ inflight > 0
    /\ inflight' = inflight - 1
    /\ UNCHANGED <<driverSub, streamCancelled, sending, streamLog, table, stopClosed>>
    /\ UNCHANGED <<handlerVars, callbackVars, closeVars, unsubVars>>
    /\ UNCHANGED <<gatewayVars, warnings>>

----------------------------------------------------------------------------
HandlerStep(h) ==
    \/ Start(h)
    \/ SubscribeCall(h)
    \/ SubscribeReturn(h)
    \/ SendIdBegin(h)
    \/ SendIdEnd(h)
    \/ AddSubscribe(h)
    \/ Ready(h)
    \/ Select(h)
    \/ Unsubscribe(h)
    \/ DeleteSubscribe(h)
    \/ Deferred(h)

CallbackStep(h, e) ==
    \/ PassGate(h, e)
    \/ LockAndSend(h, e)
    \/ SendDone(h, e)

UnsubscribeStep(u) ==
    \/ UnsubscribeGet(u)
    \/ UnsubscribeDelete(u)

CloseStep(c) ==
    \/ CloseCAS(c)
    \/ CloseChannel(c)
    \/ CloseDeleteAll(c)
    \/ CloseWait(c)

Next ==
    \/ \E h \in Streams : HandlerStep(h)
    \/ \E h \in Streams : ConsumerCancel(h)
    \/ \E h \in Streams : DriverTerminate(h)
    \/ \E h \in Streams, e \in Events : Emit(h, e)
    \/ \E h \in Streams, e \in Events : CallbackStep(h, e)
    \/ \E u \in Unsubscribers : UnsubscribeStep(u)
    \/ \E c \in Closers : CloseStep(c)
    \/ RequestBegin
    \/ RequestEnd

Spec == Init /\ [][Next]_vars

\* The code's scheduling: a started handler, callback, UnsubscribeConfiguration
\* or Close call keeps running (threads of a preemptive scheduler); nothing
\* forces a client to call, a consumer to cancel or a driver to terminate.
Fairness ==
    /\ \A h \in Streams :
          /\ WF_vars(SubscribeCall(h) \/ SubscribeReturn(h) \/ SendIdBegin(h)
                     \/ SendIdEnd(h) \/ AddSubscribe(h) \/ Ready(h) \/ Select(h)
                     \/ Unsubscribe(h) \/ DeleteSubscribe(h) \/ Deferred(h))
          /\ \A e \in Events : WF_vars(CallbackStep(h, e))
    /\ \A u \in Unsubscribers : WF_vars(UnsubscribeDelete(u))
    /\ \A c \in Closers : WF_vars(CloseChannel(c) \/ CloseDeleteAll(c) \/ CloseWait(c))

FairSpec == Spec /\ Fairness

----------------------------------------------------------------------------
(* The states of a subscription (spec 4.H), read off the handler's place.  *)

Stage(h) ==
    CASE pc[h] = "idle" -> "NONE"
      [] pc[h] \in {"subscribe", "subscribing"} -> "INITIALIZING"
      [] pc[h] \in {"sendId", "sendingId", "addSub", "ready"} -> "READY"
      [] pc[h] = "select" -> "ACTIVE"
      [] pc[h] \in {"unsubscribe", "delete"} -> "DRAINING"
      [] OTHER -> "CLOSED"

Rank(st) ==
    CASE st = "NONE" -> 0
      [] st = "INITIALIZING" -> 1
      [] st = "READY" -> 2
      [] st = "ACTIVE" -> 3
      [] st = "DRAINING" -> 4
      [] OTHER -> 5

\* The handler's Send of the id frame has returned.
IdSendReturned(h) ==
    \/ pc[h] \in {"addSub", "ready", "select", "unsubscribe", "delete"}
    \/ pc[h] \in {"deferred", "done"} /\ ret[h] \in {"SendError", "UnsubscribeError", "nil"}

\* The update events on the consumer stream, in the order received.
RECURSIVE UpdatesOf(_)
UpdatesOf(log) ==
    IF log = <<>> THEN <<>>
    ELSE IF Head(log)[1] = "update" THEN <<Head(log)[2]>> \o UpdatesOf(Tail(log))
    ELSE UpdatesOf(Tail(log))

Delivered(h) == {UpdatesOf(streamLog[h])[i] : i \in 1..Len(UpdatesOf(streamLog[h]))}

RECURSIVE Restrict(_, _)
Restrict(seq, S) ==
    IF seq = <<>> THEN <<>>
    ELSE IF Head(seq) \in S THEN <<Head(seq)>> \o Restrict(Tail(seq), S)
    ELSE Restrict(Tail(seq), S)

Increasing(seq) == \A i, j \in 1..Len(seq) : i < j => seq[i] < seq[j]

----------------------------------------------------------------------------
\* C1: on every stream the first frame the consumer receives is the frame with
\* the id the driver assigned, and no update callback gets past the ready gate
\* (to the lock or to Send) before the handler's Send of the id frame returned.
C1_IdFrameFirst ==
    \A h \in Streams :
        /\ streamLog[h] # <<>> =>
              subscribeID[h] # 0 /\ streamLog[h][1] = IdFrame(subscribeID[h])
        /\ \A e \in Events :
              cb[h][e] \in {"waitLock", "sending", "returned", "failed"} => IdSendReturned(h)

\* The driver invoked the callback while the id frame was being sent, and
\* the callback waits at the ready gate.
C1_Witness ==
    \E h \in Streams : \E e \in Events :
        pc[h] = "sendingId" /\ cb[h][e] = "waitReady"

\* C2 (as claimed): once the handler that left the select because the consumer
\* cancelled has returned, the driver's Unsubscribe was called under a context
\* that is not cancelled and the id is not in the subscription table, whatever
\* the driver's Unsubscribe answered.
C2_CancelCleansUp ==
    \A h \in Streams :
        (pc[h] = "done" /\ trigger[h] = "consumer") =>
            /\ unsubCalls[h] >= 1
            /\ ~unsubCtxDone[h]
            /\ subscribeID[h] \notin table

\* C3 (as claimed): the consumer receives the updates of a subscription in the
\* order in which the driver invoked the callbacks.
C3_EmissionOrder ==
    \A h \in Streams : Increasing(UpdatesOf(streamLog[h]))

\* C3 (amended): the consumer receives the updates in the order in which
\* their callbacks acquired the lock; that is the emission order when the
\* driver invoked every callback after the earlier ones had returned.
C3_LockOrder ==
    \A h \in Streams :
        /\ UpdatesOf(streamLog[h]) = Restrict(lockOrder[h], Delivered(h))
        /\ sequential[h] => Increasing(UpdatesOf(streamLog[h]))

\* Two callbacks were invoked concurrently and both updates were delivered.
C3_Witness ==
    \E h \in Streams :
        /\ ~sequential[h]
        /\ Len(UpdatesOf(streamLog[h])) = 2

\* C4: at no time are two senders inside Send on the same consumer stream.
C4_NoConcurrentSend ==
    \A h \in Streams : Cardinality(sending[h]) <= 1

\* One callback is inside Send while another one waits for the lock.
C4_Witness ==
    \E h \in Streams : \E e, d \in Events :
        cb[h][e] = "sending" /\ cb[h][d] = "waitLock"

\* C5 (as claimed): a subscription moves through INITIALIZING, READY, ACTIVE,
\* DRAINING, CLOSED in this order only; the id is assigned before the id frame
\* is sent, the id frame is sent before the entry is added and the gate is
\* opened, Unsubscribe is called only after a drain trigger, and once CLOSED
\* the id is not in the subscription table.
C5_StateOrder ==
    /\ [][\A h \in Streams : Rank(Stage(h))' >= Rank(Stage(h))]_vars
    /\ [](\A h \in Streams :
            /\ IdSendReturned(h) \/ pc[h] = "sendingId" => subscribeID[h] # 0
            /\ h \in table => IdFrame(h) \in {streamLog[h][i] : i \in 1..Len(streamLog[h])}
            /\ (readyClosed[h] /\ subscribeID[h] # 0) => IdSendReturned(h)
            /\ unsubCalls[h] > 0 => trigger[h] # "none"
            /\ (Stage(h) = "CLOSED" /\ subscribeID[h] # 0) => subscribeID[h] \notin table)

C8_LiveProducerAndConsumer ==
    \A id \in table :
        /\ Cardinality({h \in Streams : subscribeID[h] = id /\ pc[h] # "done"}) = 1
        /\ \A h \in Streams : subscribeID[h] = id => driverSub[h] # "unsubscribed"

\* C9: however many Close calls run, the close channel is closed at most
\* once, exactly once when they all have returned, nothing panics, and a
\* call that ends ends by returning nil.
C9_CloseIdempotent ==
    /\ closeChCloses <= 1
    /\ ~panicked
    /\ \A c \in Closers : cpc[c] # "panic"
    /\ (\E c \in Closers : cpc[c] # "idle") => closed
    /\ (\A c \in Closers : cpc[c] = "done") => closeChCloses = 1

\* Two Close calls have returned.
C9_Witness ==
    /\ Cardinality({c \in Closers : cpc[c] = "done"}) >= 2
    /\ closeChCloses = 1

\* C10 (as claimed): Close drops the subscription entries only after the
\* in-flight requests have drained.
C10_DropAfterDrain ==
    [][\A c \in Closers :
         (cpc[c] = "deleteAll" /\ cpc'[c] # "deleteAll" /\ table # {}) => inflight = 0]_vars

\* C10 (amended): Close marks closed, the call that marked it closes the
\* close channel, then each call drops all subscription entries (firing their
\* stop signals) and only then waits for the in-flight requests; it returns
\* only when none is left.
C10_DropThenDrain ==
    /\ [][\A c \in Closers :
            /\ (cpc[c] = "idle" /\ cpc'[c] # "idle") =>
                  closed' /\ cpc'[c] = (IF closed THEN "deleteAll" ELSE "closeCh")
            /\ (cpc[c] = "closeCh" /\ cpc'[c] # "closeCh") =>
                  closeChCloses' = 1 /\ cpc'[c] = "deleteAll"
            /\ (cpc[c] = "deleteAll" /\ cpc'[c] # "deleteAll") =>
                  /\ cpc'[c] = "wait"
                  /\ table' = {}
                  /\ \A h \in table : stopClosed'[h]
            /\ (cpc[c] = "wait" /\ cpc'[c] # "wait") =>
                  cpc'[c] = "done" /\ inflight = 0]_vars
    /\ [](\A c \in Closers : cpc[c] = "done" => closed)

\* A Close call has dropped the entry of a waiting subscription and waits
\* for a request that is still in flight.
C10_Witness ==
    \E c \in Closers : \E h \in Streams :
        /\ cpc[c] = "wait"
        /\ inflight > 0
        /\ pc[h] = "select"
        /\ stopClosed[h]
        /\ \A u \in Unsubscribers : upc[u] = "idle"

----------------------------------------------------------------------------
(* InvokeService                                                           *)

\* What a.directMessaging.Invoke gives back: an error, or the response of
\* an app channel that speaks gRPC or HTTP.
InvokeOutcomes == {"error", "grpc", "http"}

\* (variant: a closed API turns calls away like one without direct messaging)
DirectMessagingNilOrClosed == ~cfg.directMessaging \/ closed

\* a.directMessaging == nil
DirectMessagingNil == ~cfg.directMessaging

\* (variant: the flag is set without being tested)
CompareAndSwapNoticeAlways == TRUE

\* invokeServiceDeprecationNoticeShown.CompareAndSwap(false, true)
CompareAndSwapNotice == ~noticeShown

\* invokeServiceHTTPDeprecationNoticeShown.CompareAndSwap(false, true)
CompareAndSwapHTTPNotice == ~httpNoticeShown

\* The call arrives: without direct messaging it ends at once.
InvokeStart(i) ==
    /\ ipc[i] = "idle"
    /\ iclosed' = [iclosed EXCEPT ![i].arrived = closed]
    /\ IF DirectMessagingNil
         THEN /\ ipc' = [ipc EXCEPT ![i] = "done"]
              /\ iret' = [iret EXCEPT ![i] = "ErrDirectInvokeNotReady"]
         ELSE /\ ipc' = [ipc EXCEPT ![i] = "notice"]
              /\ UNCHANGED iret
    /\ UNCHANGED <<noticeShown, httpNoticeShown, warnings, unaryVars>>
    /\ UNCHANGED <<streamVars, table, stopClosed, inflight, closeVars, unsubVars>>

\* The deprecation notice of InvokeService, behind its flag.
InvokeNotice(i) ==
    /\ ipc[i] = "notice"
    /\ noticeShown' = TRUE
    /\ warnings' = IF CompareAndSwapNotice
                     THEN [warnings EXCEPT !.invoke = @ + 1]
                     ELSE warnings
    /\ ipc' = [ipc EXCEPT ![i] = "invoke"]
    /\ UNCHANGED <<iret, iclosed, httpNoticeShown, unaryVars>>
    /\ UNCHANGED <<streamVars, table, stopClosed, inflight, closeVars, unsubVars>>

\* a.directMessaging.Invoke inside the policy runner.
InvokeCall(i) ==
    /\ ipc[i] = "invoke"
    /\ iclosed' = [iclosed EXCEPT ![i].invoked = closed]
    /\ \E out \in InvokeOutcomes :
          /\ ipc' = [ipc EXCEPT ![i] = IF out = "http" THEN "httpNotice" ELSE "done"]
          /\ iret' = [iret EXCEPT ![i] = CASE out = "error" -> "ErrDirectInvoke"
                                           [] out = "grpc" -> "grpcResponse"
                                           [] out = "http" -> @]
    /\ UNCHANGED <<noticeShown, httpNoticeShown, warnings, unaryVars>>
    /\ UNCHANGED <<streamVars, table, stopClosed, inflight, closeVars, unsubVars>>

\* imr.IsHTTPResponse(): the notice of the gRPC -> HTTP path, behind its flag.
InvokeHTTPNotice(i) ==
    /\ ipc[i] = "httpNotice"
    /\ httpNoticeShown' = TRUE
    /\ warnings' = IF CompareAndSwapHTTPNotice
                     THEN [warnings EXCEPT !.http = @ + 1]
                     ELSE warnings
    /\ ipc' = [ipc EXCEPT ![i] = "done"]
    /\ iret' = [iret EXCEPT ![i] = "httpResponse"]
    /\ UNCHANGED <<iclosed, noticeShown, unaryVars>>
    /\ UNCHANGED <<streamVars, table, stopClosed, inflight, closeVars, unsubVars>>

InvokeStep(i) ==
    \/ InvokeStart(i)
    \/ InvokeNotice(i)
    \/ InvokeCall(i)
    \/ InvokeHTTPNotice(i)

\* The API is built with or without direct messaging.
ConfigInit ==
    /\ cfg \in [pubsubAdapter : {TRUE}, directMessaging : BOOLEAN, retries : {0}]
    /\ GatewayIdle
    /\ StreamsIdle

\* InvokeService calls racing with one another and with Close.
InvokeNext ==
    \/ \E i \in Invokers : InvokeStep(i)
    \/ \E c \in Closers : CloseStep(c)

InvokeSpec == ConfigInit /\ [][InvokeNext]_vars

\* The deprecated operations: InvokeService calls, and UnsubscribeConfiguration
\* calls on the subscriptions of SubscribeConfiguration streams.
DeprecatedNext ==
    \/ \E h \in Streams : HandlerStep(h)
    \/ \E u \in UnsubscribeCallers : UnsubscribeStep(u)
    \/ \E i \in Invokers : InvokeStep(i)

DeprecatedSpec == ConfigInit /\ [][DeprecatedNext]_vars

----------------------------------------------------------------------------
(* Calls and the closed API                                                *)

\* What InvokeService returns once direct messaging has been invoked.
InvokeResults == {"ErrDirectInvoke", "grpcResponse", "httpResponse"}

\* C11: once the gateway has been closed, every call that is in flight or
\* arrives afterwards ends with Unavailable instead of being dispatched.
C11_ClosedGatewayUnavailable ==
    \A i \in Invokers :
        (ipc[i] = "done" /\ (iclosed[i].arrived \/ iclosed[i].invoked))
            => iret[i] = "Unavailable"

\* C11 (amended): Close turns no call away.  A call is dispatched to direct
\* messaging exactly when direct messaging is configured, whether or not the
\* API was closed when the call arrived or when it invoked, and no call
\* returns Unavailable.
C11_CloseRejectsNoCall ==
    \A i \in Invokers :
        /\ iret[i] # "Unavailable"
        /\ iret[i] = "ErrDirectInvokeNotReady" => ~cfg.directMessaging
        /\ (ipc[i] = "done" /\ cfg.directMessaging) => iret[i] \in InvokeResults
        /\ iclosed[i].invoked => iret[i] \in InvokeResults \/ ipc[i] = "httpNotice"

\* One call arrived at a closed API and was answered by the app; another
\* was in flight when Close ran and invoked the app afterwards.
C11_Witness ==
    \E i, j \in Invokers :
        /\ ipc[i] = "done" /\ iclosed[i].arrived /\ iret[i] = "grpcResponse"
        /\ ipc[j] = "done" /\ ~iclosed[j].arrived /\ iclosed[j].invoked
        /\ iret[j] \in InvokeResults

----------------------------------------------------------------------------
(* Deprecation notices                                                     *)

\* InvokeService calls that have gone through the deprecation check.
PastNotice == {i \in Invokers : ipc[i] \in {"invoke", "httpNotice"} \/ iret[i] \in InvokeResults}

\* C12: however many InvokeService calls reach the deprecation check, the
\* notice is logged exactly once per process, and a call at the check can
\* always take its step: it waits for no other caller.
C12_NoticeOnceNoWait ==
    /\ warnings.invoke <= 1
    /\ PastNotice # {} => warnings.invoke = 1
    /\ \A i \in Invokers : ipc[i] = "notice" => ENABLED InvokeNotice(i)

\* Two calls have gone through the check, and one notice was logged.
C12_Witness ==
    /\ Cardinality(PastNotice) >= 2
    /\ warnings.invoke = 1

\* C13: every deprecated operation emits its deprecation warning at most
\* once per process, however many times it is called.
C13_WarnAtMostOnce ==
    /\ warnings.invoke <= 1
    /\ warnings.http <= 1
    /\ warnings.unsubscribe <= 1

----------------------------------------------------------------------------
(* PublishEvent and BulkPublishEventAlpha1                                 *)

\* The requests: pubsub names (one is in the component store), topics, the
\* rawPayload metadata value, entry ids, and whether the cloud event
\* envelope of the data can be created and marshalled.  An envelope has an
\* outcome only in a call that gets as far as making it, and the adapter
\* answers only a call that is dispatched.
PubsubNames == {"", "pubsub", "missing"}
Topics == {"", "topic"}
RawPayloadFlags == {"absent", "true", "false", "bad"}
EntryIds == {"", "a", "b"}
EnvelopeOutcomes == {"ok", "CloudEventCreation", "MarshalEnvelope"}

\* What the pubsub adapter answers.
BrokerErrors == {"nil", "NotAllowedError", "NotFoundError", "other"}

\* Sequences over S of length at most n.
SeqUpTo(S, n) == UNION {[1..k -> S] : k \in 0..n}

Range(seq) == {seq[k] : k \in 1..Len(seq)}

\* a.Universal.CompStore().GetPubSub(pubsubName)
GetPubSub(name) == name = "pubsub"

\* contribMetadata.IsRawPayload(reqMeta): the flag parsed as a boolean.
IsRawPayload(flag) ==
    CASE flag = "absent" -> [raw |-> FALSE, err |-> FALSE]
      [] flag = "true" -> [raw |-> TRUE, err |-> FALSE]
      [] flag = "false" -> [raw |-> FALSE, err |-> FALSE]
      [] flag = "bad" -> [raw |-> FALSE, err |-> TRUE]

\* (variant: the topic is not validated)
validateAndGetPubsubAndTopicAnyTopic(name, topic, flag) ==
    IF ~cfg.pubsubAdapter THEN "NotConfigured"
    ELSE IF name = "" THEN "NameEmpty"
    ELSE IF ~GetPubSub(name) THEN "NotFound"
    ELSE IF IsRawPayload(flag).err THEN "DeserializeError"
    ELSE "nil"

\* The error of the validation, "nil" when the request passes.
validateAndGetPubsubAndTopic(name, topic, flag) ==
    IF ~cfg.pubsubAdapter THEN "NotConfigured"
    ELSE IF name = "" THEN "NameEmpty"
    ELSE IF ~GetPubSub(name) THEN "NotFound"
    ELSE IF topic = "" THEN "TopicEmpty"
    ELSE IF IsRawPayload(flag).err THEN "DeserializeError"
    ELSE "nil"

\* The switch on the adapter's error.
PublishError(berr) ==
    CASE berr = "nil" -> "nil"
      [] berr = "NotAllowedError" -> "PublishForbidden"
      [] berr = "NotFoundError" -> "TestNotFound"
      [] OTHER -> "PublishMessage"

\* The writes of a state store's driver.
DriverWrites == {"Set", "BulkSet", "Delete", "BulkDelete", "Multi"}

\* What the driver of a store holds under a physical key: no data when the
\* key is not there.
Stored(store, physical) ==
    IF <<store, physical>> \in DOMAIN disk THEN disk[<<store, physical>>] ELSE <<>>

\* The stores after a write of the driver: the values of the request are
\* under its keys, in the request's order, and a deleted key is gone.
Written(store, entry) ==
    LET touched == {<<store, entry.keys[k]>> : k \in 1..Len(entry.keys)}
        last(sp) == CHOOSE k \in 1..Len(entry.keys) :
                       /\ entry.keys[k] = sp[2]
                       /\ \A j \in (k + 1)..Len(entry.keys) : entry.keys[j] # sp[2]
        val(sp) == IF sp \in touched THEN entry.values[last(sp)] ELSE disk[sp]
        dom == {sp \in (DOMAIN disk) \cup touched : val(sp) # <<>>}
    IN  IF dom = {} THEN <<>> ELSE [sp \in dom |-> val(sp)]

\* The stores after a call: a write that the driver answered without error
\* has been performed.
Apply(rec) ==
    LET writes == {k \in 1..Len(rec.sent) : rec.sent[k].to \in DriverWrites}
    IN  IF writes # {} /\ rec.answer = <<"nil">>
          THEN Written(rec.in.store, rec.sent[CHOOSE k \in writes : TRUE])
        ELSE disk

\* The call returns: its record is kept until the response has gone to the
\* client (the calls are made one after the other), and the dispatches and
\* egress metrics it made are counted.
Return(rec) ==
    /\ call' = rec
    /\ disk' = Apply(rec)
    /\ ncalls' = ncalls + 1
    /\ dispatches' = dispatches
          + Cardinality({k \in 1..Len(rec.sent) : rec.sent[k].to \in {"Publish", "BulkPublish"}})
    /\ egress' = egress
          + Cardinality({k \in 1..Len(rec.metrics) :
                            rec.metrics[k].name \in {"PubsubEgressEvent", "BulkPubsubEgressEvent"}})
    /\ UNCHANGED <<cfg, invokeVars, warnings>>
    /\ UNCHANGED <<streamVars, table, stopClosed, inflight, closeVars, unsubVars>>

\* The response of the call has gone to the client.
Respond ==
    /\ call # NoCall
    /\ call' = NoCall
    /\ UNCHANGED <<cfg, ncalls, dispatches, egress, disk, invokeVars, warnings>>
    /\ UNCHANGED <<streamVars, table, stopClosed, inflight, closeVars, unsubVars>>

PublishEvent ==
    /\ call = NoCall
    /\ ncalls < MaxCalls
    /\ \E name \in PubsubNames, topic \in Topics, flag \in RawPayloadFlags,
          env \in EnvelopeOutcomes, berr \in BrokerErrors :
          LET verr == validateAndGetPubsubAndTopic(name, topic, flag)
              early == IF verr # "nil" THEN verr
                       ELSE IF ~IsRawPayload(flag).raw /\ env # "ok" THEN env
                       ELSE "nil"
              dispatched == early = "nil"
          IN  /\ env # "ok" => early = env
              /\ ~dispatched => berr = "nil"
              /\ Return([op |-> "PublishEvent",
                         in |-> [pubsub |-> name, topic |-> topic, raw |-> flag,
                                 envelope |-> env],
                         err |-> IF dispatched THEN PublishError(berr) ELSE early,
                         sent |-> IF dispatched
                                    THEN <<[to |-> "Publish", pubsub |-> name, topic |-> topic]>>
                                    ELSE <<>>,
                         metrics |-> IF dispatched
                                       THEN <<[name |-> "PubsubEgressEvent",
                                               success |-> berr = "nil", published |-> 1]>>
                                       ELSE <<>>,
                         resp |-> <<>>,
                         answer |-> IF dispatched THEN <<berr>> ELSE <<>>,
                         spans |-> 0])

Least(S) == CHOOSE x \in S : \A y \in S : x <= y

\* The first entry of the batch whose id is empty or already in entryIdSet
\* (0: every id is present and new).
FirstBadId(entries) ==
    LET bad == {k \in 1..Len(entries) :
                   entries[k] = "" \/ \E j \in 1..(k - 1) : entries[j] = entries[k]}
    IN  IF bad = {} THEN 0 ELSE Least(bad)

\* The failed entries the adapter reports for the ids in F, and the
\* response entries made of them.
FailedEntries(F) == {[EntryId |-> id, Error |-> <<"error", id>>] : id \in F}

\* (variant: the failed entries are not subtracted)
EventsPublishedAll(n, k) == n

\* eventsPublished: the entries of the request less the failed ones.
EventsPublished(n, k) == IF k # 0 THEN n - k ELSE n

\* closeChildSpans ends every span of spanMap.
closeChildSpans(started) == 0

\* The loop over the entries stops at the first entry with a bad id, or at
\* the first whose envelope cannot be made (entry number bad, envelopes being
\* made only when the payload is not raw); a child span is started for each
\* entry that gets as far as its envelope.
BulkPublishEventAlpha1 ==
    /\ call = NoCall
    /\ ncalls < MaxCalls
    /\ \E name \in PubsubNames, topic \in Topics, flag \in RawPayloadFlags,
          entries \in SeqUpTo(EntryIds, MaxEntries), env \in EnvelopeOutcomes,
          bad \in 0..MaxEntries, berr \in BrokerErrors :
          /\ bad <= Len(entries)
          /\ (env = "ok") <=> (bad = 0)
          /\ \E F \in SUBSET Range(entries) :
              LET verr == validateAndGetPubsubAndTopic(name, topic, flag)
                  raw == IsRawPayload(flag).raw
                  b == FirstBadId(entries)
                  stopAtId == b > 0 /\ (raw \/ bad = 0 \/ b <= bad)
                  stopAtEnvelope == ~raw /\ bad > 0 /\ (b = 0 \/ bad < b)
                  early == IF verr # "nil" THEN verr
                           ELSE IF stopAtId THEN "MarshalEvents"
                           ELSE IF stopAtEnvelope THEN env
                           ELSE "nil"
                  dispatched == early = "nil"
                  started == IF raw THEN 0 ELSE Len(entries)
                  n == Len(entries)
              IN  /\ bad > 0 => early = env
                  /\ ~dispatched => (berr = "nil" /\ F = {})
                  /\ Return([op |-> "BulkPublishEventAlpha1",
                             in |-> [pubsub |-> name, topic |-> topic, raw |-> flag,
                                     entries |-> entries, envelope |-> env, bad |-> bad],
                             err |-> IF dispatched THEN PublishError(berr) ELSE early,
                             sent |-> IF dispatched
                                        THEN <<[to |-> "BulkPublish", pubsub |-> name,
                                                topic |-> topic, entries |-> entries]>>
                                        ELSE <<>>,
                             metrics |-> IF dispatched
                                           THEN <<[name |-> "BulkPubsubEgressEvent",
                                                   success |-> berr = "nil",
                                                   published |-> EventsPublished(n, Cardinality(F))]>>
                                           ELSE <<>>,
                             resp |-> IF dispatched /\ berr = "nil"
                                        THEN FailedEntries(F) ELSE {},
                             answer |-> IF dispatched THEN <<F, berr>> ELSE <<>>,
                             spans |-> IF verr # "nil" THEN 0
                                       ELSE IF stopAtId
                                         THEN (IF raw THEN 0 ELSE b - 1)
                                       ELSE IF stopAtEnvelope THEN closeChildSpans(bad)
                                       ELSE closeChildSpans(started)])

\* PublishEvent and BulkPublishEventAlpha1 calls, one after the other.
PubsubNext ==
    \/ PublishEvent
    \/ BulkPublishEventAlpha1
    \/ Respond

\* The API is built with or without a pubsub adapter.
PubsubInit ==
    /\ cfg \in [pubsubAdapter : BOOLEAN, directMessaging : {TRUE}, retries : {0}]
    /\ GatewayIdle
    /\ StreamsIdle

PubsubSpec == PubsubInit /\ [][PubsubNext]_vars

----------------------------------------------------------------------------
(* Publishing                                                              *)

PubsubOps == {"PublishEvent", "BulkPublishEventAlpha1"}

\* The last call was a BulkPublish that passed the validation of its pubsub
\* name, topic and metadata.
ValidBulkPublish ==
    /\ call.op = "BulkPublishEventAlpha1"
    /\ validateAndGetPubsubAndTopic(call.in.pubsub, call.in.topic, call.in.raw) = "nil"

\* C14: a BulkPublish request with an empty or repeated entry id, where no
\* envelope fails before it, is rejected (apierrors' MarshalEvents, the
\* InvalidArgument of this request) before any side effect: nothing is sent
\* to the broker, no metric is recorded and no child span is left started.
C14_BadEntryIdNoSideEffect ==
    (ValidBulkPublish /\ call.in.bad = 0 /\ FirstBadId(call.in.entries) > 0)
        => /\ call.err = "MarshalEvents"
           /\ call.sent = <<>>
           /\ call.metrics = <<>>
           /\ call.spans = 0

\* C15: when the broker fails some entries of a batch and publishes the
\* others (it neither forbids the publication nor misses the topic), the
\* call returns no error and the response lists exactly the failed entries
\* with their error text.
C15_PartialFailureIsSuccess ==
    (ValidBulkPublish /\ call.sent # <<>>
       /\ call.answer[1] # {} /\ call.answer[1] # Range(call.in.entries)
       /\ call.answer[2] \in {"nil", "other"})
        => /\ call.err = "nil"
           /\ call.resp = FailedEntries(call.answer[1])

\* C16: a dispatched BulkPublish of n entries of which the broker reports k
\* failed records n - k published events, which is not negative.
C16_PublishedCount ==
    (call.op = "BulkPublishEventAlpha1" /\ call.sent # <<>>)
        => /\ Len(call.metrics) = 1
           /\ call.metrics[1].published
                 = Len(call.in.entries) - Cardinality(call.answer[1])
           /\ call.metrics[1].published >= 0

\* A batch of two entries, one of which the broker failed.
C16_Witness ==
    /\ call.op = "BulkPublishEventAlpha1"
    /\ call.sent # <<>>
    /\ Len(call.in.entries) = 2
    /\ Cardinality(call.answer[1]) = 1
    /\ call.metrics[1].published = 1

ValidationErrors == {"NotConfigured", "NameEmpty", "NotFound", "TopicEmpty",
                     "DeserializeError"}

\* C17: a PublishEvent or BulkPublish without pubsub adapter, with an empty
\* or unknown pubsub name, an empty topic or an unparsable rawPayload value
\* returns the validation error without a broker call and without an egress
\* metric; egress metrics and broker dispatches are equal in number.
C17_InvalidNotDispatched ==
    /\ egress = dispatches
    /\ call.op \in PubsubOps =>
          LET invalid == \/ ~cfg.pubsubAdapter
                         \/ call.in.pubsub = ""
                         \/ call.in.pubsub = "missing"
                         \/ call.in.topic = ""
                         \/ call.in.raw = "bad"
          IN  /\ invalid => /\ call.err \in ValidationErrors
                            /\ call.sent = <<>>
                            /\ call.metrics = <<>>
              /\ ~cfg.pubsubAdapter => call.err = "NotConfigured"
              /\ (cfg.pubsubAdapter /\ call.in.pubsub = "missing") => call.err = "NotFound"
              /\ Len(call.sent) = Len(call.metrics)

\* One call was dispatched and measured, and a later one failed the
\* validation of its topic.
C17_Witness ==
    /\ ncalls = 2
    /\ dispatches = 1
    /\ egress = 1
    /\ call.op \in PubsubOps
    /\ call.err = "TopicEmpty"

----------------------------------------------------------------------------
(* The state operations                                                    *)

\* The state stores of the component store: a transactional one, an
\* encrypted transactional one, and one without transactions; "missing" is
\* in no store.  Logical keys, "" being the empty key.
StoreNames == {"statestore", "encstore", "plainstore", "missing"}
Keys == {"", "k1", "k2"}
AppID == "app"

\* The value of the items written, as bytes ("hi"), and no data.
Value == <<104, 105>>
NoData == <<>>

\* fmt.Sprintf("%v", b) of a byte slice: the decimal numbers of the bytes,
\* separated by spaces, between brackets.
RECURSIVE Decimal(_)
Decimal(n) == IF n < 10 THEN <<48 + n>> ELSE Decimal(n \div 10) \o <<48 + (n % 10)>>

RECURSIVE JoinDecimal(_)
JoinDecimal(b) ==
    IF Len(b) = 0 THEN <<>>
    ELSE IF Len(b) = 1 THEN Decimal(b[1])
    ELSE Decimal(b[1]) \o <<32>> \o JoinDecimal(Tail(b))

Sprintf(b) == <<91>> \o JoinDecimal(b) \o <<93>>

\* encryption.TryEncryptValue and TryDecryptValue: the ciphertext is the
\* transformed bytes followed by the name of the key; a record without the
\* name of the key cannot be decrypted, and no data decrypts to no data.
KeyName == <<124, 124, 107>>

TryEncryptValue(b) == [k \in 1..Len(b) |-> (b[k] + 1) % 256] \o KeyName

TryDecryptValue(c) ==
    LET n == Len(c) - Len(KeyName)
    IN  IF Len(c) = 0 THEN [data |-> <<>>, err |-> "nil"]
        ELSE IF n >= 0 /\ SubSeq(c, n + 1, Len(c)) = KeyName
          THEN [data |-> [k \in 1..n |-> (c[k] + 255) % 256], err |-> "nil"]
        ELSE [data |-> <<>>, err |-> "decrypt"]

\* A record of a store that is not a ciphertext.
Corrupt == <<0>>

\* What a state-store driver answers: no error, an ETagError of either kind,
\* an error carrying its own status (kiterrors.FromError), or another error.
\* An ETagError answers only a request that carries an etag.
DriverErrors == {"nil", "ETagMismatch", "ETagInvalid", "kit", "other"}

DriverAnswers(etag) == IF etag THEN DriverErrors
                       ELSE DriverErrors \ {"ETagMismatch", "ETagInvalid"}

\* a.Universal.GetStateStore(name): the error, "nil" when the store is there.
GetStateStore(name) == IF name = "missing" THEN "StateStoreNotFound" ELSE "nil"

\* encryption.EncryptedStateStore(name)
EncryptedStateStore(name) == name = "encstore"

\* stateLoader.GetModifiedStateKey: the app-scoped key, or the error of an
\* empty logical key.
GetModifiedStateKey(key) ==
    IF key = "" THEN [key |-> <<>>, err |-> "InvalidArgument"]
    ELSE [key |-> <<AppID, key>>, err |-> "nil"]

\* stateLoader.GetOriginalStateKey: the part after the app's prefix; a key
\* without prefix is returned as it is.
GetOriginalStateKey(physical) == IF Len(physical) = 2 THEN physical[2] ELSE ""

\* The keys of a list after rewriting, and whether one of them was rejected.
ModifiedKeys(keys) == [k \in 1..Len(keys) |-> GetModifiedStateKey(keys[k]).key]

\* (variant: the handlers go on after the rewriter's error)
KeyErrorIgnored(keys) == FALSE

KeyError(keys) == \E k \in 1..Len(keys) : GetModifiedStateKey(keys[k]).err # "nil"

\* getStateErrorCode: the gRPC code of a store error.
getStateErrorCode(derr) ==
    CASE derr = "ETagMismatch" -> "Aborted"
      [] derr = "ETagInvalid" -> "InvalidArgument"
      [] OTHER -> "Internal"

\* The error a write returns for the store's error: an error that carries
\* its own status is returned as it is.
StateWriteError(derr) ==
    CASE derr = "nil" -> "nil"
      [] derr = "kit" -> "kit"
      [] OTHER -> getStateErrorCode(derr)

\* stateLoader.PerformBulkStoreOperation: one request goes to the single
\* operation of the store, any other number to the bulk operation.
PerformBulkStoreOperation(reqs, values, single, multi) ==
    IF Len(reqs) = 1 THEN <<[to |-> single, keys |-> reqs, values |-> values]>>
    ELSE <<[to |-> multi, keys |-> reqs, values |-> values]>>

\* resiliency.NewRunner(ctx, policy)(thunk): the thunk is run, and run
\* again after each failure that the policy retries; the requests of the
\* thunk reach the component once per run.
RECURSIVE PolicyRunner(_, _)
PolicyRunner(requests, failures) ==
    IF failures = 0 THEN requests
    ELSE requests \o PolicyRunner(requests, failures - 1)

\* diag.DefaultComponentMonitoring.StateInvoked
StateInvoked(op, derr) == <<[name |-> "StateInvoked", op |-> op, success |-> derr = "nil"]>>

\* The record of a state call that returns before anything is dispatched.
Early(op, in, err) ==
    [op |-> op, in |-> in, err |-> err, sent |-> <<>>, metrics |-> <<>>,
     resp |-> <<>>, answer |-> <<>>, spans |-> 0]

\* The responses of store.BulkGet: one per request, with the key of the
\* request and the record the driver holds (a corrupt record for the items
\* in corrupt), or with the driver's error for the items in failed.
BulkGet(store, physical, corrupt, failed) ==
    [k \in 1..Len(physical) |->
        [Key |-> physical[k],
         Data |-> IF k \in failed THEN NoData
                  ELSE IF k \in corrupt THEN Corrupt
                  ELSE Stored(store, physical[k]),
         Error |-> IF k \in failed THEN "driver" ELSE ""]]

\* (variant: an item that cannot be decrypted keeps the driver's record)
DecryptItemKeepsData(item) ==
    IF item.Error # "" \/ Len(item.Data) = 0 THEN [item EXCEPT !.Data = NoData]
    ELSE IF TryDecryptValue(item.Data).err # "nil" THEN item
    ELSE [item EXCEPT !.Data = TryDecryptValue(item.Data).data]

\* The loop over the items of an encrypted store: an item with an error or
\* without data has its data cleared; an item that cannot be decrypted has
\* its data cleared and the error of the decryption; the others have their
\* data decrypted.
DecryptItem(item) ==
    IF item.Error # "" \/ Len(item.Data) = 0 THEN [item EXCEPT !.Data = NoData]
    ELSE IF TryDecryptValue(item.Data).err # "nil"
      THEN [item EXCEPT !.Data = NoData, !.Error = TryDecryptValue(item.Data).err]
    ELSE [item EXCEPT !.Data = TryDecryptValue(item.Data).data]

\* (variant: the items carry the prefix of the driver's keys)
BulkItemsPrefix(store, responses) ==
    [k \in 1..Len(responses) |->
        LET item == [responses[k] EXCEPT !.Key = (responses[k].Key)[1]]
        IN  IF EncryptedStateStore(store) THEN DecryptItem(item) ELSE item]

\* The items of a GetBulkState response: the keys projected back and, on
\* an encrypted store, the data decrypted.
BulkItems(store, responses) ==
    [k \in 1..Len(responses) |->
        LET item == [responses[k] EXCEPT !.Key = GetOriginalStateKey(responses[k].Key)]
        IN  IF EncryptedStateStore(store) THEN DecryptItem(item) ELSE item]

GetBulkState ==
    /\ call = NoCall
    /\ ncalls < MaxCalls
    /\ \E store \in StoreNames, keys \in SeqUpTo(Keys, MaxKeys),
          derr \in DriverAnswers(FALSE), corrupt \in SUBSET (1..MaxKeys),
          failed \in SUBSET (1..MaxKeys), failures \in 0..cfg.retries :
          LET in == [store |-> store, keys |-> keys, etag |-> FALSE]
              early == IF GetStateStore(store) # "nil" THEN GetStateStore(store)
                       ELSE IF Len(keys) = 0 THEN "empty"
                       ELSE IF KeyError(keys) THEN "InvalidArgument"
                       ELSE "nil"
              answered == early = "nil" /\ derr = "nil"
          IN  /\ early # "nil" => (derr = "nil" /\ failures = 0)
              /\ corrupt \subseteq 1..Len(keys)
              /\ failed \subseteq 1..Len(keys)
              /\ corrupt \cap failed = {}
              /\ ~answered => (corrupt = {} /\ failed = {})
              /\ Return(IF early = "empty" THEN Early("GetBulkState", in, "nil")
                        ELSE IF early # "nil" THEN Early("GetBulkState", in, early)
                        ELSE [op |-> "GetBulkState", in |-> in,
                              err |-> IF derr = "nil" THEN "nil" ELSE "driver",
                              sent |-> PolicyRunner(<<[to |-> "BulkGet",
                                                      keys |-> ModifiedKeys(keys)]>>,
                                                    failures),
                              metrics |-> StateInvoked("BulkGet", derr),
                              resp |-> IF derr = "nil"
                                         THEN BulkItems(store,
                                                        BulkGet(store, ModifiedKeys(keys),
                                                                corrupt, failed))
                                         ELSE <<>>,
                              answer |-> <<derr, corrupt, failed>>,
                              spans |-> 0])

GetState ==
    /\ call = NoCall
    /\ ncalls < MaxCalls
    /\ \E store \in StoreNames, key \in Keys, derr \in DriverAnswers(FALSE),
          corrupt \in BOOLEAN, failures \in 0..cfg.retries :
          LET in == [store |-> store, keys |-> <<key>>, etag |-> FALSE]
              early == IF GetStateStore(store) # "nil" THEN GetStateStore(store)
                       ELSE GetModifiedStateKey(key).err
              answered == early = "nil" /\ derr = "nil"
              data == IF corrupt THEN Corrupt
                      ELSE Stored(store, GetModifiedStateKey(key).key)
              decrypt == IF EncryptedStateStore(store) THEN TryDecryptValue(data)
                         ELSE [data |-> data, err |-> "nil"]
          IN  /\ early # "nil" => (derr = "nil" /\ failures = 0)
              /\ ~answered => ~corrupt
              /\ Return(IF early # "nil" THEN Early("GetState", in, early)
                        ELSE [op |-> "GetState", in |-> in,
                              err |-> IF derr = "kit" THEN "kit"
                                      ELSE IF derr # "nil" \/ decrypt.err # "nil"
                                        THEN "Internal"
                                      ELSE "nil",
                              sent |-> PolicyRunner(<<[to |-> "Get",
                                                      keys |-> ModifiedKeys(<<key>>)]>>,
                                                    failures),
                              metrics |-> StateInvoked("Get", derr),
                              resp |-> IF derr = "nil" /\ decrypt.err = "nil"
                                         THEN <<[Data |-> decrypt.data]>> ELSE <<>>,
                              answer |-> <<derr, data>>,
                              spans |-> 0])

\* What can stop a write between the rewriting of its keys and its dispatch:
\* a JSON value that does not parse, or a value that cannot be encrypted.
SavePreparations(store) ==
    {"ok", "unmarshal"} \cup (IF EncryptedStateStore(store) THEN {"encrypt"} ELSE {})

\* (variant: the value goes to the driver as it came)
SetValuePlain(store, value) == value

\* The value of a SetRequest of SaveState: on an encrypted store the
\* ciphertext of the item's value.
SetValue(store, value) ==
    IF EncryptedStateStore(store) THEN TryEncryptValue(value) ELSE value

SaveState ==
    /\ call = NoCall
    /\ ncalls < MaxCalls
    /\ \E store \in StoreNames, keys \in SeqUpTo(Keys, MaxKeys), etag \in BOOLEAN :
       \E prep \in SavePreparations(store), derr \in DriverAnswers(etag),
          failures \in 0..cfg.retries :
          LET in == [store |-> store, keys |-> keys, etag |-> etag]
              early == IF GetStateStore(store) # "nil" THEN GetStateStore(store)
                       ELSE IF Len(keys) = 0 THEN "empty"
                       ELSE IF \E k \in 1..Len(keys) : Len(keys[k]) = 0 THEN "InvalidArgument"
                       ELSE IF KeyError(keys) THEN "InvalidArgument"
                       ELSE IF prep # "ok" THEN prep
                       ELSE "nil"
          IN  /\ prep # "ok" => early = prep
              /\ early # "nil" => (derr = "nil" /\ failures = 0)
              /\ Return(IF early = "empty" THEN Early("SaveState", in, "nil")
                        ELSE IF early # "nil" THEN Early("SaveState", in, early)
                        ELSE [op |-> "SaveState", in |-> in,
                              err |-> StateWriteError(derr),
                              sent |-> PolicyRunner(
                                           PerformBulkStoreOperation(
                                              ModifiedKeys(keys),
                                              [k \in 1..Len(keys) |-> SetValue(store, Value)],
                                              "Set", "BulkSet"),
                                           failures),
                              metrics |-> StateInvoked("Set", derr),
                              resp |-> <<>>,
                              answer |-> <<derr>>,
                              spans |-> 0])

DeleteState ==
    /\ call = NoCall
    /\ ncalls < MaxCalls
    /\ \E store \in StoreNames, key \in Keys, etag \in BOOLEAN :
       \E derr \in DriverAnswers(etag), failures \in 0..cfg.retries :
          LET in == [store |-> store, keys |-> <<key>>, etag |-> etag]
              early == IF GetStateStore(store) # "nil" THEN GetStateStore(store)
                       ELSE GetModifiedStateKey(key).err
          IN  /\ early # "nil" => (derr = "nil" /\ failures = 0)
              /\ Return(IF early # "nil" THEN Early("DeleteState", in, early)
                        ELSE [op |-> "DeleteState", in |-> in,
                              err |-> StateWriteError(derr),
                              sent |-> PolicyRunner(<<[to |-> "Delete",
                                                      keys |-> ModifiedKeys(<<key>>),
                                                      values |-> <<NoData>>]>>,
                                                    failures),
                              metrics |-> StateInvoked("Delete", derr),
                              resp |-> <<>>,
                              answer |-> <<derr>>,
                              spans |-> 0])

\* Unlike GetBulkState and SaveState, the handler has no return for an empty
\* list: the bulk store operation is performed and measured for any list.
DeleteBulkState ==
    /\ call = NoCall
    /\ ncalls < MaxCalls
    /\ \E store \in StoreNames, keys \in SeqUpTo(Keys, MaxKeys), etag \in BOOLEAN :
       \E derr \in DriverAnswers(etag), failures \in 0..cfg.retries :
          LET in == [store |-> store, keys |-> keys, etag |-> etag]
              early == IF GetStateStore(store) # "nil" THEN GetStateStore(store)
                       ELSE IF KeyError(keys) THEN "InvalidArgument"
                       ELSE "nil"
          IN  /\ early # "nil" => (derr = "nil" /\ failures = 0)
              /\ Len(keys) = 0 => ~etag
              /\ Return(IF early # "nil" THEN Early("DeleteBulkState", in, early)
                        ELSE [op |-> "DeleteBulkState", in |-> in,
                              err |-> StateWriteError(derr),
                              sent |-> PolicyRunner(
                                           PerformBulkStoreOperation(
                                              ModifiedKeys(keys),
                                              [k \in 1..Len(keys) |-> NoData],
                                              "Delete", "BulkDelete"),
                                           failures),
                              metrics |-> StateInvoked("BulkDelete", derr),
                              resp |-> <<>>,
                              answer |-> <<derr>>,
                              spans |-> 0])

\* The operations of a transaction request.
OpTypes == {"upsert", "delete", "unknown"}
Operations == [type : OpTypes, key : Keys]

\* The stores' features: state.FeatureTransactional, MultiMaxSize() (0: no
\* bound) and whether the outbox is enabled for the store.
MultiMax == 1

\* (variant: every store passes for transactional)
TransactionalAny(store) == store \in StoreNames

\* store.(state.TransactionalStore) and FeatureTransactional.IsPresent.
Transactional(store) == store \in {"statestore", "encstore"}

MultiMaxSize(store) == IF store = "statestore" THEN MultiMax ELSE 0

OutboxEnabled(store) == store = "statestore"

\* (variant: the list may exceed the bound by one)
TooManyOpsOffByOne(store, n) == MultiMaxSize(store) > 0 /\ n > MultiMaxSize(store) + 1

\* max > 0 && len(operations) > max, for a store that has a MultiMaxSize.
TooManyOps(store, n) == MultiMaxSize(store) > 0 /\ n > MultiMaxSize(store)

\* a.outbox.PublishInternal: the list with the outbox's operation appended.
PublishInternal(ops) == Append(ops, [type |-> "upsert", key |-> "outbox", value |-> Value])

\* (variant: an operation of an unknown type is skipped)
OperationsErrorKeysOnly(ops) ==
    LET bad == {k \in 1..Len(ops) : GetModifiedStateKey(ops[k].key).err # "nil"}
    IN  IF bad = {} THEN "nil" ELSE GetModifiedStateKey(ops[Least(bad)].key).err

\* The error of the loop over the operations: that of the first operation
\* whose key is rejected or whose type is neither upsert nor delete.
OperationsError(ops) ==
    LET bad == {k \in 1..Len(ops) :
                   GetModifiedStateKey(ops[k].key).err # "nil" \/ ops[k].type = "unknown"}
        first == Least(bad)
    IN  IF bad = {} THEN "nil"
        ELSE IF GetModifiedStateKey(ops[first].key).err # "nil"
               THEN GetModifiedStateKey(ops[first].key).err
        ELSE "Unimplemented"

\* What can stop a transaction after its checks: a value that cannot be
\* encrypted, or the outbox failing to publish.
TransactionPreparations(store, ops) ==
    {"ok"}
    \cup (IF EncryptedStateStore(store) /\ \E k \in 1..Len(ops) : ops[k].type = "upsert"
            THEN {"encrypt"} ELSE {})
    \cup (IF OutboxEnabled(store) THEN {"outbox"} ELSE {})

\* The value of a SetRequest of a transaction: on an encrypted store the
\* ciphertext of fmt.Sprintf("%v", req.Value), the request's value being
\* the byte slice of the item.
TransactionValue(store, value) ==
    IF EncryptedStateStore(store) THEN TryEncryptValue(Sprintf(value)) ELSE value

ExecuteStateTransaction ==
    /\ call = NoCall
    /\ ncalls < MaxCalls
    /\ \E store \in StoreNames, ops \in SeqUpTo(Operations, MaxOps), etag \in BOOLEAN :
       \E prep \in TransactionPreparations(store, ops), derr \in DriverAnswers(etag),
          failures \in 0..cfg.retries :
          LET in == [store |-> store, keys |-> [k \in 1..Len(ops) |-> ops[k].key],
                     etag |-> etag, ops |-> ops]
              early == IF GetStateStore(store) # "nil" THEN GetStateStore(store)
                       ELSE IF ~Transactional(store) THEN "TransactionsNotSupported"
                       ELSE IF OperationsError(ops) # "nil" THEN OperationsError(ops)
                       ELSE IF TooManyOps(store, Len(ops)) THEN "TooManyTransactionalOps"
                       ELSE IF prep = "encrypt" THEN "Internal"
                       ELSE IF prep = "outbox" THEN "PubSubOutbox"
                       ELSE "nil"
              checked == early \in {"nil", "Internal", "PubSubOutbox"}
              requests == [k \in 1..Len(ops) |->
                             [type |-> ops[k].type, key |-> ops[k].key,
                              value |-> IF ops[k].type = "upsert"
                                          THEN TransactionValue(store, Value)
                                        ELSE NoData]]
              operations == IF OutboxEnabled(store) THEN PublishInternal(requests)
                            ELSE requests
          IN  /\ prep # "ok" => checked
              /\ early # "nil" => (derr = "nil" /\ failures = 0)
              /\ Len(ops) = 0 => ~etag
              /\ Return(IF early # "nil"
                          THEN [Early("ExecuteStateTransaction", in, early) EXCEPT
                                  !.sent = IF prep = "outbox"
                                             THEN <<[to |-> "PublishInternal", keys |-> <<>>]>>
                                             ELSE <<>>]
                        ELSE [op |-> "ExecuteStateTransaction", in |-> in,
                              err |-> IF derr = "nil" THEN "nil" ELSE "Internal",
                              sent |-> (IF OutboxEnabled(store)
                                          THEN <<[to |-> "PublishInternal", keys |-> <<>>]>>
                                          ELSE <<>>)
                                       \o PolicyRunner(
                                            <<[to |-> "Multi",
                                               keys |-> [k \in 1..Len(operations) |->
                                                           <<AppID, operations[k].key>>],
                                               values |-> [k \in 1..Len(operations) |->
                                                             operations[k].value]]>>,
                                            failures),
                              metrics |-> StateInvoked("StateTransaction", derr),
                              resp |-> <<>>,
                              answer |-> <<derr>>,
                              spans |-> 0])

\* a.ActorState(ctx): the actors' state, or the error of a runtime that has
\* none.
ActorStateErrors == {"nil", "ActorRuntime"}

\* What astate.TransactionalStateOperation answers: nil, an error that
\* carries a gRPC status, or any other error.
ActorAnswers == {"nil", "status", "other"}

\* The error of the loop over the operations of an actor's transaction: the
\* keys are not rewritten, only the type is tested.
ActorOperationsError(ops) ==
    IF \E k \in 1..Len(ops) : ops[k].type = "unknown" THEN "Unimplemented" ELSE "nil"

ExecuteActorStateTransaction ==
    /\ call = NoCall
    /\ ncalls < MaxCalls
    /\ \E aerr \in ActorStateErrors, ops \in SeqUpTo(Operations, MaxOps),
          derr \in ActorAnswers :
          LET in == [store |-> "actors", keys |-> [k \in 1..Len(ops) |-> ops[k].key],
                     etag |-> FALSE, ops |-> ops]
              early == IF aerr # "nil" THEN aerr ELSE ActorOperationsError(ops)
          IN  /\ early # "nil" => derr = "nil"
              /\ Return(IF early # "nil"
                          THEN Early("ExecuteActorStateTransaction", in, early)
                        ELSE [op |-> "ExecuteActorStateTransaction", in |-> in,
                              err |-> CASE derr = "nil" -> "nil"
                                        [] derr = "status" -> "status"
                                        [] OTHER -> "ActorStateTransactionSave",
                              sent |-> <<[to |-> "TransactionalStateOperation",
                                          keys |-> [k \in 1..Len(ops) |-> <<ops[k].key>>]]>>,
                              metrics |-> <<>>,
                              resp |-> <<>>,
                              answer |-> <<derr>>,
                              spans |-> 0])

\* The state calls, one after the other.
StateNext ==
    \/ GetState
    \/ GetBulkState
    \/ SaveState
    \/ DeleteState
    \/ DeleteBulkState
    \/ ExecuteStateTransaction
    \/ ExecuteActorStateTransaction
    \/ Respond

StateSpec == Init /\ [][StateNext]_vars

----------------------------------------------------------------------------
(* Actor invocation and the resiliency policies                            *)

\* What one router.Call comes to: the response of the actor, an error of
\* the actor itself (actorerrors.Is), an error that carries a gRPC status,
\* a failure of the lookup of the actor's host, or a failure of the call
\* after it reached the host.  The last two are failures that a policy
\* retries.
RouterOutcomes == {"ok", "actor", "status", "lookup", "target"}
RouterFailures == {"lookup", "target"}

\* The router.Call of one run of the thunk, with whether the actor's own
\* call was made.
RouterCall(outcome) ==
    [to |-> "router.Call", apiCall |-> TRUE, reached |-> outcome # "lookup"]

InvokeActor ==
    /\ call = NoCall
    /\ ncalls < MaxCalls
    /\ \E rerr \in ActorStateErrors, failures \in 0..cfg.retries, final \in RouterOutcomes :
       \E retried \in [1..failures -> RouterFailures] :
          LET in == [actor |-> "actor", failures |-> failures]
          IN  /\ rerr # "nil" => (failures = 0 /\ final = "ok")
              /\ Return(IF rerr # "nil" THEN Early("InvokeActor", in, rerr)
                        ELSE [op |-> "InvokeActor", in |-> in,
                              err |-> CASE final \in {"ok", "actor"} -> "nil"
                                        [] final = "status" -> "status"
                                        [] OTHER -> "ActorInvoke",
                              sent |-> [k \in 1..failures |-> RouterCall(retried[k])]
                                       \o <<RouterCall(final)>>,
                              metrics |-> <<>>,
                              resp |-> IF final \in {"ok", "actor"}
                                         THEN <<[Data |-> Value]>> ELSE <<>>,
                              answer |-> <<final>>,
                              spans |-> 0])

\* The calls that run under a resiliency policy of the configuration, the
\* policies having retries or not.
ResiliencyInit ==
    /\ StreamsIdle
    /\ cfg \in [pubsubAdapter : {TRUE}, directMessaging : {TRUE}, retries : 0..MaxRetries]
    /\ GatewayIdle

ResiliencyNext ==
    \/ InvokeActor
    \/ GetState
    \/ SaveState
    \/ DeleteState
    \/ DeleteBulkState
    \/ ExecuteStateTransaction
    \/ Respond

ResiliencySpec == ResiliencyInit /\ [][ResiliencyNext]_vars

----------------------------------------------------------------------------
(* The output bindings                                                     *)

\* The keys of the metadata of a request, and those of the metadata that
\* came with the call over gRPC.
TraceparentHeader == "traceparent"
TracestateHeader == "tracestate"
BaggageHeader == "baggage"
MetadataKeys == {TraceparentHeader, TracestateHeader, BaggageHeader, "dapr-authority"}
IncomingKeys == {TraceparentHeader, TracestateHeader, BaggageHeader, ":authority"}

\* invokev1.ReservedGRPCMetadataToDaprPrefixHeader: a reserved key of gRPC
\* takes the prefix of the runtime instead of its colon.
ReservedGRPCMetadataToDaprPrefixHeader(key) ==
    IF key = ":authority" THEN "dapr-authority" ELSE key

\* The metadata of the request after the span's context was added: the
\* traceparent when the request has none, the tracestate when the request
\* has none and the span's is not empty.
WithSpan(metadata, hasTraceState) ==
    LET added == (IF TraceparentHeader \notin DOMAIN metadata
                    THEN {TraceparentHeader} ELSE {})
                 \cup (IF TracestateHeader \notin DOMAIN metadata /\ hasTraceState
                         THEN {TracestateHeader} ELSE {})
    IN  [k \in (DOMAIN metadata) \cup added |->
            IF k \in DOMAIN metadata THEN metadata[k] ELSE "span"]

\* req.Metadata[BaggageHeader] = baggageString, when the call came with a
\* baggage.
WithBaggage(metadata, incoming) ==
    IF BaggageHeader \in DOMAIN incoming
      THEN [k \in (DOMAIN metadata) \cup {BaggageHeader} |->
               IF k = BaggageHeader THEN incoming[k] ELSE metadata[k]]
    ELSE metadata

\* The loop over the metadata of the call: a key that the request has not
\* is added under its sanitized name; traceparent and tracestate replace
\* what is there.
WithIncoming(metadata, incoming) ==
    LET sanitized == {ReservedGRPCMetadataToDaprPrefixHeader(key) : key \in DOMAIN incoming}
        from(k) == CHOOSE key \in DOMAIN incoming :
                      ReservedGRPCMetadataToDaprPrefixHeader(key) = k
    IN  [k \in (DOMAIN metadata) \cup sanitized |->
            IF k \in sanitized /\ (k \notin DOMAIN metadata
                                   \/ from(k) \in {TraceparentHeader, TracestateHeader})
              THEN incoming[from(k)]
            ELSE metadata[k]]

\* What otelbaggage.Parse says of the baggage of the call, and what the
\* binding answers.
BaggageValues == {"incoming", "unparsable"}
BindingErrors == {"nil", "error"}

InvokeBinding ==
    /\ call = NoCall
    /\ ncalls < MaxCalls
    /\ \E supplied \in SUBSET MetadataKeys, hasIncoming \in BOOLEAN,
          came \in SUBSET IncomingKeys, baggage \in BaggageValues,
          hasTraceState \in BOOLEAN, berr \in BindingErrors :
          LET metadata == [k \in supplied |-> "caller"]
              incoming == [k \in came |-> IF k = BaggageHeader THEN baggage ELSE "incoming"]
              in == [metadata |-> metadata, hasIncoming |-> hasIncoming,
                     incoming |-> incoming, hasTraceState |-> hasTraceState]
              parseFails == hasIncoming /\ BaggageHeader \in came /\ baggage = "unparsable"
              request == IF hasIncoming
                           THEN WithIncoming(WithBaggage(WithSpan(metadata, hasTraceState),
                                                         incoming), incoming)
                         ELSE WithSpan(metadata, hasTraceState)
          IN  /\ ~hasIncoming => came = {}
              /\ BaggageHeader \notin came => baggage = "incoming"
              /\ parseFails => berr = "nil"
              /\ Return(IF parseFails THEN Early("InvokeBinding", in, "Unknown")
                        ELSE [op |-> "InvokeBinding", in |-> in,
                              err |-> IF berr = "nil" THEN "nil" ELSE "Internal",
                              sent |-> <<[to |-> "sendToOutputBinding",
                                          metadata |-> request]>>,
                              metrics |-> <<[name |-> "OutputBindingEvent",
                                             success |-> berr = "nil"]>>,
                              resp |-> <<>>,
                              answer |-> <<berr>>,
                              spans |-> 0])

BindingNext ==
    \/ InvokeBinding
    \/ Respond

BindingSpec == Init /\ [][BindingNext]_vars

----------------------------------------------------------------------------
(* State calls                                                             *)

StateOps == {"GetState", "GetBulkState", "SaveState", "DeleteState", "DeleteBulkState",
             "ExecuteStateTransaction"}

StateWrites == {"SaveState", "DeleteState", "DeleteBulkState", "ExecuteStateTransaction"}

\* The requests the last call made to the state store's driver.
DriverRequests == {k \in 1..Len(call.sent) : call.sent[k].to # "PublishInternal"}

\* C18: GetBulkState, SaveState and DeleteBulkState on an existing store with
\* an empty list of keys or items return success without any request to the
\* store's driver.
C18_EmptyListNoDispatch ==
    (/\ call.op \in {"GetBulkState", "SaveState", "DeleteBulkState"}
     /\ GetStateStore(call.in.store) = "nil"
     /\ call.in.keys = <<>>)
        => /\ call.err = "nil"
           /\ call.resp = <<>>
           /\ DriverRequests = {}

\* The last call's request has an empty logical key.
HasEmptyKey == \E k \in 1..Len(call.in.keys) : call.in.keys[k] = ""

\* The last call got as far as rewriting the key that is empty: its store
\* exists and, for a transaction, is transactional and no operation of an
\* unknown type precedes the first empty key.
ReachesEmptyKey ==
    /\ HasEmptyKey
    /\ GetStateStore(call.in.store) = "nil"
    /\ call.op = "ExecuteStateTransaction" =>
          /\ Transactional(call.in.store)
          /\ LET first == Least({k \in 1..Len(call.in.keys) : call.in.keys[k] = ""})
             IN  \A j \in 1..(first - 1) : call.in.ops[j].type # "unknown"

C20_EtagErrorMapping ==
    (/\ call.op \in StateWrites
     /\ call.in.etag
     /\ DriverRequests # {})
        => /\ call.answer[1] = "ETagMismatch" => call.err = "Aborted"
           /\ call.answer[1] = "ETagInvalid" => call.err = "InvalidArgument"
           /\ call.answer[1] = "other" => call.err = "Internal"

----------------------------------------------------------------------------
(* Transactions                                                            *)

\* The kind of an error of the gateway: the errors built by the apierrors
\* constructors carry the kind of their status, and the gRPC code
\* Unimplemented is the kind NotSupported.
ErrorKind(err) ==
    CASE err = "TooManyTransactionalOps" -> "InvalidArgument"
      [] err = "TransactionsNotSupported" -> "NotSupported"
      [] err = "Unimplemented" -> "NotSupported"
      [] err = "StateStoreNotFound" -> "NotFound"
      [] OTHER -> err

\* The operations of the last transaction are all of a known type with a
\* key that can be rewritten.
ValidOperations == OperationsError(call.in.ops) = "nil"

C22_NonTransactionalRejected ==
    (/\ call.op = "ExecuteStateTransaction"
     /\ GetStateStore(call.in.store) = "nil"
     /\ call.in.store = "plainstore")
        => /\ ErrorKind(call.err) = "NotSupported"
           /\ call.err = "TransactionsNotSupported"
           /\ call.sent = <<>>
           /\ call.metrics = <<>>

\* A transaction of two operations, one of them with an empty key, was
\* rejected by the store that is not transactional.
C22_Witness ==
    /\ call.op = "ExecuteStateTransaction"
    /\ call.in.store = "plainstore"
    /\ Len(call.in.ops) = 2
    /\ call.in.ops[1].key = ""
    /\ call.err = "TransactionsNotSupported"
    /\ call.sent = <<>>

TransactionOps == {"ExecuteStateTransaction", "ExecuteActorStateTransaction"}

\* The last transaction holds an operation whose type is neither upsert nor
\* delete.
HasUnknownOperation == \E k \in 1..Len(call.in.ops) : call.in.ops[k].type = "unknown"

\* The loop of the last transaction got to its first operation of an
\* unknown type: the store (or the actors' state) was there, and no key up
\* to that operation was rejected by the rewriter.
ReachesUnknownOperation ==
    /\ HasUnknownOperation
    /\ LET first == Least({k \in 1..Len(call.in.ops) : call.in.ops[k].type = "unknown"})
       IN  IF call.op = "ExecuteStateTransaction"
             THEN /\ GetStateStore(call.in.store) = "nil"
                  /\ Transactional(call.in.store)
                  /\ \A j \in 1..first : GetModifiedStateKey(call.in.ops[j].key).err = "nil"
           ELSE call.err # "ActorRuntime"

\* C23 (as stated): a transaction of the state store or of an actor that
\* holds an operation of a type other than upsert and delete fails with
\* InvalidArgument and has no side effect.
C23_UnknownOperationInvalidArgument ==
    (call.op \in TransactionOps /\ ReachesUnknownOperation)
        => /\ ErrorKind(call.err) = "InvalidArgument"
           /\ call.sent = <<>>
           /\ call.metrics = <<>>

\* C23 (amended): such a transaction fails and has no side effect, at
\* whatever position the operation is; the error of the operation is
\* Unimplemented (NotSupported), not InvalidArgument.
C23_UnknownOperationUnimplemented ==
    call.op \in TransactionOps =>
        /\ HasUnknownOperation => /\ call.err # "nil"
                                  /\ call.sent = <<>>
                                  /\ call.metrics = <<>>
        /\ ReachesUnknownOperation => /\ call.err = "Unimplemented"
                                      /\ ErrorKind(call.err) = "NotSupported"

\* A transaction of an actor whose second operation is of an unknown type
\* was rejected with nothing dispatched.
C23_Witness ==
    /\ call.op = "ExecuteActorStateTransaction"
    /\ Len(call.in.ops) = 2
    /\ call.in.ops[1].type = "upsert"
    /\ call.in.ops[2].type = "unknown"
    /\ call.err = "Unimplemented"
    /\ call.sent = <<>>

----------------------------------------------------------------------------
(* Encryption                                                              *)

\* The values the last write handed to the driver for the items it upserts.
UpsertedValues ==
    IF call.op = "SaveState"
      THEN {call.sent[k].values[j] : k \in DriverRequests, j \in 1..Len(call.in.keys)}
    ELSE {call.sent[k].values[j] :
             k \in {i \in DriverRequests : call.sent[i].to = "Multi"},
             j \in {i \in 1..Len(call.in.keys) : call.in.ops[i].type = "upsert"}}

\* C24: a value written to an encrypted store by SaveState or by an upsert
\* of ExecuteStateTransaction goes to the driver as bytes that differ from
\* the value, and a later GetState of the key returns the bytes that were
\* submitted.
C24_EncryptedRoundTrip ==
    /\ (call.op \in {"SaveState", "ExecuteStateTransaction"}
        /\ EncryptedStateStore(call.in.store))
          => Value \notin UpsertedValues
    /\ (/\ call.op = "GetState"
        /\ EncryptedStateStore(call.in.store)
        /\ call.err = "nil"
        /\ call.sent # <<>>
        /\ call.answer[2] \notin {NoData, Corrupt})
          => call.resp[1].Data = Value

\* The same for the values written by SaveState alone: the record the
\* driver holds after a SaveState decrypts to the value submitted.
C24_SaveStateRoundTrip ==
    (/\ call.op = "SaveState"
     /\ EncryptedStateStore(call.in.store)
     /\ call.err = "nil"
     /\ call.sent # <<>>)
        => /\ Value \notin UpsertedValues
           /\ \A k \in 1..Len(call.in.keys) :
                 LET record == Stored(call.in.store, GetModifiedStateKey(call.in.keys[k]).key)
                 IN  /\ record # Value
                     /\ TryDecryptValue(record) = [data |-> Value, err |-> "nil"]

\* A GetState returned the value that a SaveState had written to the
\* encrypted store.
C24_Witness ==
    /\ call.op = "GetState"
    /\ call.in.store = "encstore"
    /\ call.err = "nil"
    /\ call.answer[2] = TryEncryptValue(Value)
    /\ call.resp[1].Data = Value

\* The last call is a GetBulkState that the driver answered without error.
BulkGetAnswered ==
    /\ call.op = "GetBulkState"
    /\ call.sent # <<>>
    /\ call.answer[1] = "nil"

\* What the driver answered for the items of the last GetBulkState.
BulkGetResponses ==
    BulkGet(call.in.store, ModifiedKeys(call.in.keys), call.answer[2], call.answer[3])

\* The items of the last GetBulkState whose record cannot be decrypted.
Undecryptable ==
    {k \in 1..Len(call.in.keys) :
        /\ BulkGetResponses[k].Error = ""
        /\ BulkGetResponses[k].Data # NoData
        /\ TryDecryptValue(BulkGetResponses[k].Data).err # "nil"}

\* C25: GetBulkState on an encrypted store succeeds even when items cannot
\* be decrypted: such an item has no data and a non-empty error; the other
\* items have their data decrypted and no error but the driver's own.
C25_BulkGetDecryptPerItem ==
    (BulkGetAnswered /\ EncryptedStateStore(call.in.store))
        => /\ call.err = "nil"
           /\ Len(call.resp) = Len(call.in.keys)
           /\ \A k \in 1..Len(call.in.keys) :
                 IF k \in Undecryptable
                   THEN /\ call.resp[k].Data = NoData
                        /\ call.resp[k].Error # ""
                 ELSE /\ call.resp[k].Error = BulkGetResponses[k].Error
                      /\ call.resp[k].Data =
                            IF BulkGetResponses[k].Error # "" THEN NoData
                            ELSE TryDecryptValue(BulkGetResponses[k].Data).data

\* Of two items of an encrypted store, the first could not be decrypted and
\* the second came back with the value that had been saved.
C25_Witness ==
    /\ BulkGetAnswered
    /\ call.in.store = "encstore"
    /\ Len(call.in.keys) = 2
    /\ Undecryptable = {1}
    /\ call.err = "nil"
    /\ call.resp[1].Data = NoData
    /\ call.resp[1].Error # ""
    /\ call.resp[2].Data = Value
    /\ call.resp[2].Error = ""

----------------------------------------------------------------------------
(* Output bindings                                                         *)

\* The last call is an InvokeBinding that got to the binding.
BindingInvoked == call.op = "InvokeBinding" /\ call.sent # <<>>

\* No value that the caller supplied under a key other than traceparent and
\* tracestate was replaced in the metadata sent to the binding.
SuppliedMetadataKept ==
    \A k \in (DOMAIN call.in.metadata) \ {TraceparentHeader, TracestateHeader} :
        call.sent[1].metadata[k] = call.in.metadata[k]

\* The traceparent and the tracestate sent to the binding are the span's.
TraceContextOfSpan ==
    /\ call.sent[1].metadata[TraceparentHeader] = "span"
    /\ TracestateHeader \in DOMAIN call.sent[1].metadata
          => call.sent[1].metadata[TracestateHeader] = "span"

\* C27, whole: InvokeBinding never replaces a value that the caller supplied in the
\* metadata of the request by one of the metadata of the call, for every
\* key but traceparent and tracestate, the baggage included; the traceparent
\* and the tracestate sent to the binding are always those of the span.
C27_MetadataKeptTraceRefreshed ==
    BindingInvoked => (SuppliedMetadataKept /\ TraceContextOfSpan)

\* C27, its first half: InvokeBinding never replaces a value that the
\* caller supplied in the metadata of the request under a key other than
\* traceparent and tracestate, the baggage included.
C27_SuppliedMetadataKept == BindingInvoked => SuppliedMetadataKept

\* What holds of the metadata sent: but for the baggage, a supplied value
\* is kept under every key other than traceparent and tracestate, and those
\* two are the call's when the call came with them, else the caller's, else
\* the span's.
C27_MetadataPrecedence ==
    BindingInvoked =>
        /\ \A k \in (DOMAIN call.in.metadata)
                       \ {TraceparentHeader, TracestateHeader, BaggageHeader} :
              call.sent[1].metadata[k] = call.in.metadata[k]
        /\ \A k \in {TraceparentHeader, TracestateHeader} \cap DOMAIN call.sent[1].metadata :
              call.sent[1].metadata[k] =
                 IF k \in DOMAIN call.in.incoming THEN "incoming"
                 ELSE IF k \in DOMAIN call.in.metadata THEN "caller"
                 ELSE "span"

\* A supplied baggage was replaced by the baggage of the call.
C27_BaggageReplaced ==
    /\ BindingInvoked
    /\ BaggageHeader \in DOMAIN call.in.metadata
    /\ call.in.metadata[BaggageHeader] = "caller"
    /\ call.sent[1].metadata[BaggageHeader] = "incoming"

\* C28: InvokeBinding whose baggage cannot be parsed fails with
\* InvalidArgument before any side effect: the binding is not invoked and
\* no metric of the binding is recorded.
C28_UnparsableBaggageInvalidArgument ==
    (/\ call.op = "InvokeBinding"
     /\ call.in.hasIncoming
     /\ BaggageHeader \in DOMAIN call.in.incoming
     /\ call.in.incoming[BaggageHeader] = "unparsable")
        => /\ ErrorKind(call.err) = "InvalidArgument"
           /\ call.sent = <<>>
           /\ call.metrics = <<>>

\* What holds of such a call: it fails, with the error of the parser as it
\* is, and neither the binding nor the metric is reached.
C28_UnparsableBaggageNoSideEffect ==
    (/\ call.op = "InvokeBinding"
     /\ call.in.hasIncoming
     /\ BaggageHeader \in DOMAIN call.in.incoming
     /\ call.in.incoming[BaggageHeader] = "unparsable")
        => /\ call.err = "Unknown"
           /\ call.sent = <<>>
           /\ call.metrics = <<>>

----------------------------------------------------------------------------
(* Retries                                                                 *)

\* The runs of router.Call of the last InvokeActor in which the actor's own
\* call was made.
ReachedTarget == {k \in 1..Len(call.sent) : call.sent[k].reached}

\* C29: for one InvokeActor request the actor's own call is made at most
\* once, even when the pre-lock policy retries: a retry repeats the lookup
\* of the host only, never a call that has reached the target.
C29_ActorCalledAtMostOnce ==
    call.op = "InvokeActor" => Cardinality(ReachedTarget) <= 1

\* C30: a state write whose caller has not signalled idempotency is
\* dispatched to the driver at most once per request.
C30_WriteDispatchedAtMostOnce ==
    (call.op \in StateWrites /\ ~call.in.etag) => Cardinality(DriverRequests) <= 1

----------------------------------------------------------------------------
(* GetConfiguration                                                        *)

\* What the lookup of the store name of a request finds.
ConfigurationLookups == {"found", "noStores", "notFound"}

\* diag.DefaultComponentMonitoring.ConfigurationInvoked
ConfigurationInvoked(op, derr) ==
    <<[name |-> "ConfigurationInvoked", op |-> op, success |-> derr = "nil"]>>

\* The items of a GetResponse are copied into the response map.
CachedItems(items) == {[key |-> i.key, value |-> i.value] : i \in items}

\* The items the driver answers for the keys of a request.
ConfigurationItems == {[key |-> "k", value |-> Value, version |-> 1]}

GetConfiguration ==
    /\ call = NoCall
    /\ ncalls < MaxCalls
    /\ \E lookup \in ConfigurationLookups, derr \in {"nil", "err"},
          failures \in 0..cfg.retries :
          LET in == [lookup |-> lookup, keys |-> <<"k">>]
              early == getConfigurationStore(lookup)
          IN  /\ early # "ok" => (derr = "nil" /\ failures = 0)
              /\ Return(IF early # "ok" THEN Early("GetConfiguration", in, early)
                        ELSE [op |-> "GetConfiguration", in |-> in,
                              err |-> IF derr # "nil" THEN "Internal" ELSE "nil",
                              sent |-> PolicyRunner(<<[to |-> "ConfigurationGet",
                                                      keys |-> in.keys]>>, failures),
                              metrics |-> ConfigurationInvoked("Get", derr),
                              resp |-> IF derr = "nil"
                                         THEN <<CachedItems(ConfigurationItems)>>
                                       ELSE <<>>,
                              answer |-> <<derr>>,
                              spans |-> 0])

ConfigurationNext ==
    \/ \E h \in Streams : HandlerStep(h)
    \/ \E h \in Streams : ConsumerCancel(h)
    \/ \E u \in Unsubscribers : UnsubscribeStep(u)
    \/ GetConfiguration
    \/ Respond

ConfigurationSpec == Init /\ [][ConfigurationNext]_vars

\* The SubscribeConfiguration handler of stream h returned at the lookup of
\* its store: the handler record was never built, so no deferred call ran.
ReturnedAtLookup(h) == pc[h] = "done" /\ ~readyClosed[h]

\* C31 (as stated): GetConfiguration and SubscribeConfiguration that name a
\* configuration store which is not in the component store, while other
\* configuration stores are, fail with NotFound; no Get or Subscribe of a
\* driver is invoked and no subscription entry is created.
C31_AbsentStoreNotFound ==
    /\ (call.op = "GetConfiguration" /\ call.in.lookup = "notFound")
          => /\ ErrorKind(call.err) = "NotFound"
             /\ call.sent = <<>>
    /\ \A h \in Streams :
          (ReturnedAtLookup(h) /\ ret[h] # "FailedPrecondition")
             => /\ ErrorKind(ret[h]) = "NotFound"
                /\ driverSub[h] = "none"
                /\ subscribeID[h] \notin table

\* C31 (what holds): such a call fails with the status InvalidArgument, and
\* with FailedPrecondition when no configuration store is configured at
\* all; no driver operation is invoked, no metric is recorded and no
\* subscription entry is created.
C31_AbsentStoreNoSideEffect ==
    /\ (call.op = "GetConfiguration" /\ call.in.lookup # "found")
          => /\ call.err = (IF call.in.lookup = "noStores" THEN "FailedPrecondition"
                            ELSE "InvalidArgument")
             /\ call.sent = <<>>
             /\ call.metrics = <<>>
    /\ \A h \in Streams :
          ReturnedAtLookup(h)
             => /\ ret[h] \in {"FailedPrecondition", "InvalidArgument"}
                /\ driverSub[h] = "none"
                /\ emitted[h] = 0
                /\ unsubCalls[h] = 0
                /\ streamLog[h] = <<>>
                /\ subscribeID[h] = 0

----------------------------------------------------------------------------
(* The metric rules (pkg/diagnostics): a rule of a metric names a label    *)
(* and maps regular expressions to replacements.  A tag value is a path,   *)
(* modelled as the sequence of its segments: "/orders/123" is              *)
(* <<"orders", "123">>.  The expression "/orders/.+" is modelled by its    *)
(* first segment: it matches where that segment is followed by at least    *)
(* one more.                                                               *)

MaxSegments == 2       \* segments of a recorded tag value

Segments == {"orders", "lightsabers", "siths", "123"}

RECURSIVE Paths(_)
Paths(n) ==
    IF n = 0 THEN {<<>>}
    ELSE Paths(n - 1) \cup {Append(p, s) : p \in Paths(n - 1), s \in Segments}

\* The values a caller records for the label: not empty.
TagValues == Paths(MaxSegments) \ {<<>>}

\* The rules of the label "method" of the metric of the test.
Rules ==
    {[replace |-> <<"orders", "TEST">>, regex |-> "orders"],
     [replace |-> <<"lightsabers", "TEST">>, regex |-> "lightsabers"]}

\* CreateRulesMap: the pairs of a label are collected while ranging over its
\* map, whose order of iteration is not fixed.
CreateRulesMap(rules) ==
    {order \in [1..Cardinality(rules) -> rules] :
        \A i, j \in 1..Cardinality(rules) : i # j => order[i] # order[j]}

\* The places where the expression matches in the value.
MatchesAt(regex, value) == {i \in 1..(Len(value) - 1) : value[i] = regex}

\* The expression matches the whole value.
FullMatch(regex, value) == 1 \in MatchesAt(regex, value)

\* (variant: the expression is never applied)
ReplaceNothing(regex, value, repl) == value

\* Regexp.ReplaceAllString: the leftmost match, which reaches to the end of
\* the value, is replaced.
ReplaceAllString(regex, value, repl) ==
    IF MatchesAt(regex, value) = {} THEN value
    ELSE LET i == CHOOSE m \in MatchesAt(regex, value) :
                     \A n \in MatchesAt(regex, value) : m <= n
         IN  SubSeq(value, 1, i - 1) \o repl

\* WithTags: the value goes through the pairs of the label one after the
\* other, each working on what the one before it left.
RECURSIVE WithTags(_, _)
WithTags(order, value) ==
    IF order = <<>> THEN value
    ELSE WithTags(Tail(order),
                  ReplaceAllString(Head(order).regex, value, Head(order).replace))

\* (variant: the values are recorded with tags that went through no rule)
RecordWithOptionsNoRules ==
    /\ call = NoCall
    /\ ncalls < MaxCalls
    /\ \E order \in CreateRulesMap(Rules), v1 \in TagValues, v2 \in TagValues,
          two \in BOOLEAN :
          LET values == IF two THEN <<v1, v2>> ELSE <<v1>>
          IN  /\ ~two => v2 = v1
              /\ Return([op |-> "RecordWithOptions",
                         in |-> [values |-> values, order |-> order],
                         err |-> "nil", sent |-> <<>>, metrics |-> <<>>,
                         resp |-> values,
                         answer |-> <<{values[k] : k \in 1..Len(values)}>>,
                         spans |-> 0])

\* stats.RecordWithOptions with the tags of WithTags, for one value or for
\* two; the view then holds one row per stored tag value.
RecordWithOptions ==
    /\ call = NoCall
    /\ ncalls < MaxCalls
    /\ \E order \in CreateRulesMap(Rules), v1 \in TagValues, v2 \in TagValues,
          two \in BOOLEAN :
          LET values == IF two THEN <<v1, v2>> ELSE <<v1>>
              stored == [k \in 1..Len(values) |-> WithTags(order, values[k])]
          IN  /\ ~two => v2 = v1
              /\ Return([op |-> "RecordWithOptions",
                         in |-> [values |-> values, order |-> order],
                         err |-> "nil", sent |-> <<>>, metrics |-> <<>>,
                         resp |-> stored,
                         answer |-> <<{stored[k] : k \in 1..Len(stored)}>>,
                         spans |-> 0])

MetricsNext ==
    \/ RecordWithOptions
    \/ Respond

MetricsSpec == Init /\ [][MetricsNext]_vars

----------------------------------------------------------------------------
\* C33: UnsubscribeConfiguration for an id that is not in the subscription
\* table answers Ok=false (with a message, and no error); the table, the
\* stop signals and the handlers of the other subscriptions are as before,
\* no driver operation is called and no warning is logged.
C33_UnknownIdNoEffect ==
    [][\A u \in Unsubscribers :
          (upc[u] = "idle" /\ upc'[u] # "idle" /\ uid'[u] \notin table)
             => /\ upc'[u] = "done"
                /\ uok'[u] = "false"
                /\ table' = table
                /\ stopClosed' = stopClosed
                /\ unsubCalls' = unsubCalls
                /\ driverSub' = driverSub
                /\ pc' = pc
                /\ subCancelled' = subCancelled
                /\ warnings' = warnings]_vars

\* An id that no driver assigned was answered Ok=false while the
\* subscription of stream 1 is active and in the table.
C33_Witness ==
    \E u \in Unsubscribers :
        /\ upc[u] = "done"
        /\ uok[u] = "false"
        /\ uid[u] = 0
        /\ table = {1}
        /\ pc[1] = "select"
        /\ ~stopClosed[1]

----------------------------------------------------------------------------
\* C34: a subscription that the driver's Subscribe created is released by a
\* call of the driver's Unsubscribe for its id on every path on which the
\* handler returns; in a finite run: a handler that has returned after a
\* successful Subscribe has called Unsubscribe (nothing else calls it, and a
\* handler that has returned takes no further step).
C34_SubscriptionReleased ==
    \A h \in Streams :
        (pc[h] = "done" /\ driverSub[h] # "none") => unsubCalls[h] >= 1

\* C34 (what holds): a handler that has returned after a successful
\* Subscribe has called Unsubscribe once, unless it returned the error of
\* the Send of the id frame.
C34_ReleasedUnlessIdSendFailed ==
    \A h \in Streams :
        (pc[h] = "done" /\ driverSub[h] # "none")
            => unsubCalls[h] = (IF ret[h] = "SendError" THEN 0 ELSE 1)

----------------------------------------------------------------------------
\* C35: once the subscribe context of a subscription has been cancelled (the
\* subscription drains), and so once its handler has returned, no callback
\* enters Send on the consumer stream, whatever the driver still invokes.
C35_NoSendAfterDrain ==
    [][\A h \in Streams, e \in Events :
          (cb[h][e] # "sending" /\ cb'[h][e] = "sending")
             => (~subCancelled[h] /\ pc[h] # "done")]_vars

\* C35 (what holds): a callback enters Send only after the gate was opened
\* and while it holds the lock of its subscription.
C35_SendBehindGateAndLock ==
    [][\A h \in Streams, e \in Events :
          (cb[h][e] # "sending" /\ cb'[h][e] = "sending")
             => (readyClosed[h] /\ lock[h] = 0 /\ lock'[h] = e)]_vars

----------------------------------------------------------------------------
\* The consumer of stream h has received the frame with the id, and the
\* subscription is still active: the handler has not left the select, the
\* consumer has not cancelled and the stop signal has not been fired.
IdReceivedAndActive(h) ==
    /\ streamLog[h] # <<>>
    /\ streamLog[h][1] = IdFrame(h)
    /\ pc[h] \in {"addSub", "ready", "select"}
    /\ ~streamCancelled[h]
    /\ ~stopClosed[h]

\* C36: an UnsubscribeConfiguration call with the id of a subscription
\* whose consumer has received the id frame and which is still active finds
\* the subscription (and so answers Ok=true), wherever the handler is.
C36_UnsubscribeFindsSentId ==
    [][\A u \in Unsubscribers :
          (/\ upc[u] = "idle"
           /\ upc'[u] # "idle"
           /\ uid'[u] \in Streams
           /\ IdReceivedAndActive(uid'[u]))
             => upc'[u] = "delete"]_vars

\* C36 (what holds): the call finds the subscription once the handler has
\* registered it, which it does after the Send of the id frame returned.
C36_UnsubscribeFindsRegisteredId ==
    /\ [][\A u \in Unsubscribers :
            (/\ upc[u] = "idle"
             /\ upc'[u] # "idle"
             /\ uid'[u] \in Streams
             /\ IdReceivedAndActive(uid'[u])
             /\ pc[uid'[u]] # "addSub")
               => upc'[u] = "delete"]_vars
    /\ [][\A u \in Unsubscribers :
            (upc[u] = "delete" /\ upc'[u] # "delete") => uok'[u] = "true"]_vars

----------------------------------------------------------------------------
\* A Close call has returned and no SubscribeConfiguration handler runs.
ClosedAndHandlersFinished ==
    /\ \E c \in Closers : cpc[c] = "done"
    /\ \A h \in Streams : pc[h] \in {"idle", "done"}

\* C37: when Close has returned and the handlers that ran have finished, the
\* subscription table is empty, also when a handler registered its entry
\* after Close had dropped the entries.
C37_TableEmptyAfterClose ==
    ClosedAndHandlersFinished => table = {}

\* C37 (what holds): it is empty unless a handler returned the error of the
\* driver's Unsubscribe, and the entry that is left is that handler's.
C37_TableEmptyUnlessUnsubscribeFailed ==
    ClosedAndHandlersFinished
        => table = {h \in Streams : ret[h] = "UnsubscribeError" /\ ~stopClosed[h]}

----------------------------------------------------------------------------
\* C38: a callback of the driver that waits at the ready gate is released
\* in the end on every path of the handler (the error of Subscribe, the
\* error of the Send of the id frame, the activation), and readyCh is
\* closed at most once although ready() is called after the id frame and
\* again by the deferred call.
C38_GateReleasedClosedOnce ==
    /\ [](\A h \in Streams : readyChCloses[h] <= 1)
    /\ \A h \in Streams, e \in Events :
          (cb[h][e] = "waitReady") ~> (cb[h][e] # "waitReady")

\* The handler returned the error of the Send of the id frame, where only
\* the deferred ready() opens the gate, and a callback has passed the gate.
C38_Witness ==
    \E h \in Streams :
        /\ pc[h] = "done"
        /\ ret[h] = "SendError"
        /\ readyChCloses[h] = 1
        /\ cb[h][1] = "waitLock"

----------------------------------------------------------------------------
\* The requests of the last call that went to the driver's Multi.
MultiRequests == {k \in 1..Len(call.sent) : call.sent[k].to = "Multi"}

\* C39: the list of operations that ExecuteStateTransaction hands to the
\* driver's Multi is never longer than the MultiMaxSize of the store, also
\* when the outbox has appended operations to it.
C39_MultiWithinMaxSize ==
    (call.op = "ExecuteStateTransaction" /\ MultiMaxSize(call.in.store) > 0)
        => \A k \in MultiRequests :
              Len(call.sent[k].keys) <= MultiMaxSize(call.in.store)

\* C39 (what holds): the list of the request is within the bound; the list
\* handed to Multi is longer by what the outbox appended.
C39_RequestWithinMaxSize ==
    (call.op = "ExecuteStateTransaction" /\ MultiMaxSize(call.in.store) > 0)
        => \A k \in MultiRequests :
              /\ Len(call.in.ops) <= MultiMaxSize(call.in.store)
              /\ Len(call.sent[k].keys)
                    = Len(call.in.ops) + (IF OutboxEnabled(call.in.store) THEN 1 ELSE 0)

----------------------------------------------------------------------------
\* C40: when a BulkPublish call returns, on whichever path, every child
\* span it started for an entry has been ended: none is left started.
C40_ChildSpansEnded ==
    call.op = "BulkPublishEventAlpha1" => call.spans = 0

\* C40 (what holds): none is left started unless the call returned at an
\* entry with an empty or repeated id; it then leaves the spans of the
\* entries before that one, when the payload is not raw.
C40_ChildSpansEndedUnlessBadId ==
    call.op = "BulkPublishEventAlpha1" =>
        call.spans = (IF call.err = "MarshalEvents" /\ ~IsRawPayload(call.in.raw).raw
                        THEN FirstBadId(call.in.entries) - 1
                      ELSE 0)
====
